---- MODULE Spec2Model ----
(***************************************************************************)
(* Verification model of the aggregation and resampling passes of the      *)
(* PyPSA-KR network pipeline:                                              *)
(*   libs/region_aggregator.py  aggregate_network_by_region and its steps  *)
(*   libs/aggregators.py        aggregate_generators_by_carrier_and_region *)
(*   libs/resample.py           limit_snapshots, resample_network          *)
(*   libs/archive/resample.py   the archived rule-driven resample_network  *)
(*                                                                         *)
(* Conventions.  A string is a sequence of tokens, so that f-string names  *)
(* are concatenations.  A number is an exact rational <<n, d>> with d > 0  *)
(* in lowest terms; the pandas missing value NaN is <<0, 0>>.  A component *)
(* table (DataFrame) is a sequence of records in index order, each with a  *)
(* name field.  All time indexes are DatetimeIndex values, as the loader   *)
(* (libs/data_loader.py:43-68) leaves them; a time stamp is the number of  *)
(* hours since midnight of the first day.                                  *)
(***************************************************************************)
EXTENDS Integers, Sequences, FiniteSets, TLC

VARIABLES
    network,    \* the pypsa.Network the passes mutate in place
    config,     \* the configuration dictionary handed to the pass
    args,       \* the other arguments of the running call
    local,      \* local variables of the running pass that outlive a step
    before,     \* the network as it was when the pass was called
    pc          \* position of the running pass

vars == <<network, config, args, local, before, pc>>

\* ------------------------------------------------------------------------
\* Bounds of the model
\* ------------------------------------------------------------------------
MaxLines == 3
MaxLinks == 2
MaxGens == 3
MaxSnap == 4
MaxWeights == 3

\* ------------------------------------------------------------------------
\* Exact arithmetic with the pandas treatment of missing values
\* ------------------------------------------------------------------------
NaN == <<0, 0>>

IsNaN(v) == v[2] = 0

Abs(i) == IF i < 0 THEN -i ELSE i

RECURSIVE Gcd(_, _)
Gcd(a, b) == IF b = 0 THEN a ELSE Gcd(b, a % b)

Norm(n, d) ==
    IF d = 0 THEN NaN
    ELSE LET g == Gcd(Abs(n), Abs(d))
             s == IF d < 0 THEN -1 ELSE 1
         IN  <<(s * n) \div g, (s * d) \div g>>

R(i) == <<i, 1>>

RAdd(a, b) == IF IsNaN(a) \/ IsNaN(b) THEN NaN
              ELSE Norm(a[1] * b[2] + b[1] * a[2], a[2] * b[2])

RMul(a, b) == IF IsNaN(a) \/ IsNaN(b) THEN NaN
              ELSE Norm(a[1] * b[1], a[2] * b[2])

RDiv(a, b) == IF IsNaN(a) \/ IsNaN(b) THEN NaN
              ELSE Norm(a[1] * b[2], a[2] * b[1])

RLess(a, b) == a[1] * b[2] < b[1] * a[2]

\* Series.sum(): missing values are skipped, the empty sum is 0
RECURSIVE SeriesSum(_)
SeriesSum(s) ==
    IF s = << >> THEN R(0)
    ELSE IF IsNaN(Head(s)) THEN SeriesSum(Tail(s))
         ELSE RAdd(Head(s), SeriesSum(Tail(s)))

RECURSIVE SeriesCount(_)
SeriesCount(s) ==
    IF s = << >> THEN 0
    ELSE (IF IsNaN(Head(s)) THEN 0 ELSE 1) + SeriesCount(Tail(s))

\* the mean that counts missing values as entries
SeriesMeanOverAll(s) == RDiv(SeriesSum(s), R(Len(s)))

\* Series.mean(): missing values are skipped, all missing gives NaN
SeriesMean(s) == RDiv(SeriesSum(s), R(SeriesCount(s)))

RECURSIVE SeriesMax(_)
SeriesMax(s) ==
    IF s = << >> THEN NaN
    ELSE LET m == SeriesMax(Tail(s))
         IN  IF IsNaN(Head(s)) THEN m
             ELSE IF IsNaN(m) \/ RLess(m, Head(s)) THEN Head(s) ELSE m

RECURSIVE SeriesMin(_)
SeriesMin(s) ==
    IF s = << >> THEN NaN
    ELSE LET m == SeriesMin(Tail(s))
         IN  IF IsNaN(Head(s)) THEN m
             ELSE IF IsNaN(m) \/ RLess(Head(s), m) THEN Head(s) ELSE m

\* element-wise product of two columns of one table
SeriesMul(a, b) == [i \in 1..Len(a) |-> RMul(a[i], b[i])]

\* ------------------------------------------------------------------------
\* DataFrame helpers
\* ------------------------------------------------------------------------
RECURSIVE SelectRows(_, _)
SelectRows(df, keep) ==
    IF df = << >> THEN << >>
    ELSE (IF Head(df).name \in keep THEN <<Head(df)>> ELSE << >>)
         \o SelectRows(Tail(df), keep)

Index(df) == {df[i].name : i \in 1..Len(df)}

\* position of v in the sequence order (0 when absent): the collation pandas
\* uses when it sorts group keys
RECURSIVE Rank(_, _)
Rank(v, order) ==
    IF order = << >> THEN 0
    ELSE IF Head(order) = v THEN 1
         ELSE LET r == Rank(v, Tail(order)) IN IF r = 0 THEN 0 ELSE r + 1

\* ------------------------------------------------------------------------
\* Names
\* ------------------------------------------------------------------------
NA == <<"nan">>

RegionOrder == <<<<"A">>, <<"A", "_", "B">>, <<"B">>, <<"C">>, NA>>

\* config['province_mapping'] as load_province_mapping returns it: official
\* and short names both map to the short name
ProvinceMapping ==
    (<<"A", "do">> :> <<"A">>) @@ (<<"A">> :> <<"A">>) @@ (<<"B">> :> <<"B">>)

NoMapping == << >>

\* ------------------------------------------------------------------------
\* libs/region_aggregator.py
\* ------------------------------------------------------------------------
standardize_region_name(region_name, mapping) ==
    IF mapping = NoMapping \/ region_name = NA THEN region_name
    ELSE IF region_name \in DOMAIN mapping THEN mapping[region_name]
         ELSE region_name

\* bus_to_region of _create_bus_to_region_mapping; regions is its range
create_bus_to_region_mapping(buses, mapping) ==
    LET named == {i \in 1..Len(buses) : buses[i].province # NA}
    IN  [b \in {buses[i].name : i \in named} |->
            LET i == CHOOSE j \in named : buses[j].name = b
            IN  standardize_region_name(buses[i].province, mapping)]

Regions(bus_to_region) == {bus_to_region[b] : b \in DOMAIN bus_to_region}

RECURSIVE SortedRegions(_)
SortedRegions(S) ==
    IF S = {} THEN << >>
    ELSE LET m == CHOOSE r \in S :
                    \A o \in S : Rank(r, RegionOrder) <= Rank(o, RegionOrder)
         IN  <<m>> \o SortedRegions(S \ {m})

Column(df, col) == [i \in 1..Len(df) |-> df[i][col]]

\* _aggregate_buses_by_region: one bus per region, then every old bus removed
aggregate_buses_by_region(buses, regions, bus_to_region) ==
    LET order == SortedRegions(regions)
    IN  [i \in 1..Len(order) |->
            LET members == SelectRows(buses,
                              {b \in DOMAIN bus_to_region : bus_to_region[b] = order[i]})
            IN  [name |-> order[i],
                 province |-> order[i],
                 v_nom |-> SeriesMax([j \in 1..Len(members) |-> R(members[j].v_nom)])[1]]]

\* _map_generators_to_regional_buses
map_generators_to_regional_buses(generators, buses, mapping) ==
    [i \in 1..Len(generators) |->
        LET g == generators[i]
            standardized_region == standardize_region_name(g.province, mapping)
        IN  IF g.province # NA /\ standardized_region \in Index(buses)
            THEN [g EXCEPT !.bus = standardized_region]
            ELSE g]

\* dict.get(key, default)
Get(cfg, key, default) ==
    IF key \in DOMAIN cfg THEN cfg[key] ELSE default

\* network.lines[...].map(bus_to_region): NaN for a bus the mapping lacks
MapRegion(bus, bus_to_region) ==
    IF bus \in DOMAIN bus_to_region THEN bus_to_region[bus] ELSE NA

\* the edges with both endpoints mapped, self loops included
EdgesWithMappedBuses(edges, cfg, bus_to_region) ==
    LET valid == {i \in 1..Len(edges) :
                     /\ MapRegion(edges[i].bus0, bus_to_region) # NA
                     /\ MapRegion(edges[i].bus1, bus_to_region) # NA}
    IN  SelectRows(edges, {edges[i].name : i \in valid})

\* rows left after the unmapped-bus filter and the self-loop filter
SurvivingEdges(edges, cfg, bus_to_region) ==
    LET region0(e) == MapRegion(e.bus0, bus_to_region)
        region1(e) == MapRegion(e.bus1, bus_to_region)
        valid == {i \in 1..Len(edges) :
                     region0(edges[i]) # NA /\ region1(edges[i]) # NA}
        kept == IF Get(cfg, "remove_self_loops", TRUE) = TRUE
                THEN {i \in valid : region0(edges[i]) # region1(edges[i])}
                ELSE valid
    IN  SelectRows(edges, {edges[i].name : i \in kept})

\* a key that ignores the direction of the edge
UndirectedKey(e, by_voltage, bus_to_region) ==
    LET r0 == MapRegion(e.bus0, bus_to_region)
        r1 == MapRegion(e.bus1, bus_to_region)
        lo == IF Rank(r0, RegionOrder) <= Rank(r1, RegionOrder) THEN r0 ELSE r1
        hi == IF Rank(r0, RegionOrder) <= Rank(r1, RegionOrder) THEN r1 ELSE r0
    IN  IF by_voltage THEN <<lo, hi, e.v_nom>> ELSE <<lo, hi>>

\* the group key of one edge under group_cols
GroupKey(e, by_voltage, bus_to_region) ==
    IF by_voltage
    THEN <<MapRegion(e.bus0, bus_to_region), MapRegion(e.bus1, bus_to_region), e.v_nom>>
    ELSE <<MapRegion(e.bus0, bus_to_region), MapRegion(e.bus1, bus_to_region)>>

KeyLess(k1, k2) ==
    LET a0 == Rank(k1[1], RegionOrder)
        b0 == Rank(k2[1], RegionOrder)
        a1 == Rank(k1[2], RegionOrder)
        b1 == Rank(k2[2], RegionOrder)
    IN  \/ a0 < b0
        \/ a0 = b0 /\ a1 < b1
        \/ a0 = b0 /\ a1 = b1 /\ Len(k1) >= 3 /\ k1[3] < k2[3]

\* DataFrame.groupby(group_cols): the keys in sorted order
RECURSIVE SortedKeys(_)
SortedKeys(S) ==
    IF S = {} THEN << >>
    ELSE LET m == CHOOSE k \in S : \A o \in S \ {k} : KeyLess(k, o)
         IN  <<m>> \o SortedKeys(S \ {m})

RECURSIVE GroupRows(_, _, _, _)
GroupRows(edges, key, by_voltage, bus_to_region) ==
    IF edges = << >> THEN << >>
    ELSE (IF GroupKey(Head(edges), by_voltage, bus_to_region) = key
          THEN <<Head(edges)>> ELSE << >>)
         \o GroupRows(Tail(edges), key, by_voltage, bus_to_region)

\* the circuits rule of one group (lines 336-347)
TotalCircuits(group, line_config) ==
    LET circuits_rule == Get(line_config, "circuits", "sum")
        circuits == Column(group, "circuits")
    IN  CASE circuits_rule = "sum"  -> SeriesSum(circuits)
          [] circuits_rule = "max"  -> SeriesMax(circuits)
          [] circuits_rule = "mean" -> SeriesMean(circuits)
          [] OTHER -> SeriesSum(circuits)

\* the s_nom rule with 'sum' where none is configured
LineCapacityDefaultSum(group, line_config) ==
    LET s_nom_rule == Get(line_config, "s_nom", "sum")
    IN  CASE s_nom_rule = "sum" -> SeriesSum(Column(group, "s_nom"))
          [] s_nom_rule = "max" -> SeriesMax(Column(group, "s_nom"))
          [] s_nom_rule = "scale_by_circuits" ->
                 RMul(group[1].s_nom, TotalCircuits(group, line_config))
          [] OTHER -> group[1].s_nom

\* the s_nom rule of one group (lines 349-358)
LineCapacity(group, line_config) ==
    LET s_nom_rule == Get(line_config, "s_nom", "keep_original")
    IN  CASE s_nom_rule = "sum" -> SeriesSum(Column(group, "s_nom"))
          [] s_nom_rule = "max" -> SeriesMax(Column(group, "s_nom"))
          [] s_nom_rule = "scale_by_circuits" ->
                 RMul(group[1].s_nom, TotalCircuits(group, line_config))
          [] OTHER -> group[1].s_nom

\* the unweighted mean whatever the rule
ImpedancePlainMean(group, attr, line_config) == SeriesMean(Column(group, attr))

\* the impedance rule of one group for one of r, x, b (lines 360-385); an
\* unrecognised rule sets nothing and network.add leaves the default 0
Impedance(group, attr, line_config) ==
    LET impedance_rule == Get(line_config, "impedance", "weighted_by_circuits")
        weights == Column(group, "circuits")
        weight_sum == SeriesSum(weights)
        values == Column(group, attr)
    IN  CASE impedance_rule = "weighted_by_circuits" ->
                 IF RLess(R(0), weight_sum)
                 THEN RDiv(SeriesSum(SeriesMul(values, weights)), weight_sum)
                 ELSE SeriesMean(values)
          [] impedance_rule = "mean" -> SeriesMean(values)
          [] impedance_rule = "min" -> SeriesMin(values)
          [] impedance_rule = "max" -> SeriesMax(values)
          [] OTHER -> R(0)

\* f"line_{bus0}_{bus1}_{i}"
LineName(prefix, bus0, bus1, i) ==
    <<prefix, "_">> \o bus0 \o <<"_">> \o bus1 \o <<"_", ToString(i)>>

\* _aggregate_lines_by_region: network.lines after the call
aggregate_lines_by_region(lines, line_config, bus_to_region) ==
    IF Len(lines) = 0 THEN lines
    ELSE
    LET kept == SurvivingEdges(lines, line_config, bus_to_region)
        by_voltage == Get(line_config, "grouping", "by_voltage") = "by_voltage"
        keys == SortedKeys({GroupKey(kept[i], by_voltage, bus_to_region) :
                               i \in 1..Len(kept)})
    IN  [i \in 1..Len(keys) |->
            LET group == GroupRows(kept, keys[i], by_voltage, bus_to_region)
            IN  [name |-> LineName("line", keys[i][1], keys[i][2], i - 1),
                 bus0 |-> keys[i][1],
                 bus1 |-> keys[i][2],
                 v_nom |-> IF by_voltage THEN keys[i][3] ELSE 0,
                 circuits |-> NaN,
                 num_parallel |-> TotalCircuits(group, line_config),
                 s_nom |-> LineCapacity(group, line_config),
                 r |-> Impedance(group, "r", line_config),
                 x |-> Impedance(group, "x", line_config),
                 b |-> Impedance(group, "b", line_config)]]

\* the p_nom rule of one group with the zero-capacity sentinel (lines 479-492)
LinkCapacity(group, link_config) ==
    LET p_nom_rule == Get(link_config, "p_nom", "sum")
        p_nom == CASE p_nom_rule = "sum" -> SeriesSum(Column(group, "p_nom"))
                   [] p_nom_rule = "max" -> SeriesMax(Column(group, "p_nom"))
                   [] OTHER -> group[1].p_nom
    IN  IF p_nom = R(0) THEN Get(link_config, "unlimited_capacity", R(1000000))
        ELSE p_nom

\* _aggregate_links_by_region: network.links after the call
aggregate_links_by_region(links, link_config, bus_to_region) ==
    IF Len(links) = 0 THEN links
    ELSE
    LET kept == SurvivingEdges(links, link_config, bus_to_region)
        by_voltage == FALSE
        keys == SortedKeys({GroupKey(kept[i], by_voltage, bus_to_region) :
                               i \in 1..Len(kept)})
    IN  [i \in 1..Len(keys) |->
            LET group == GroupRows(kept, keys[i], by_voltage, bus_to_region)
            IN  [name |-> LineName("link", keys[i][1], keys[i][2], i - 1),
                 bus0 |-> keys[i][1],
                 bus1 |-> keys[i][2],
                 p_nom |-> LinkCapacity(group, link_config),
                 efficiency |-> Get(link_config, "default_efficiency", R(1))]]

\* DataFrame.sum(axis=1) of a time-indexed table (one sequence per column)
RowSums(table) ==
    LET cols == DOMAIN table
        n == Len(table[CHOOSE c \in cols : TRUE])
        RECURSIVE total(_, _)
        total(S, t) ==
            IF S = {} THEN R(0)
            ELSE LET c == CHOOSE d \in S : TRUE
                 IN  IF IsNaN(table[c][t]) THEN total(S \ {c}, t)
                     ELSE RAdd(table[c][t], total(S \ {c}, t))
    IN  [t \in 1..n |-> total(cols, t)]

\* f"load_{region}"
LoadName(region) == <<"load", "_">> \o region

TotalRow == <<"total">>

\* the loop of lines 625-655 (or 664-674 when the demand data cannot be
\* used): the regional loads are added one by one, never over an existing one
RECURSIVE AddRegionalLoads(_, _, _)
AddRegionalLoads(loads, loads_t, new) ==
    IF new = << >> THEN [loads |-> loads, loads_t |-> loads_t]
    ELSE LET h == Head(new)
         IN  IF h.row.name \in Index(loads)
             THEN AddRegionalLoads(loads, loads_t, Tail(new))
             ELSE AddRegionalLoads(
                      Append(loads, h.row),
                      IF h.series = << >> THEN loads_t
                      ELSE [loads_t EXCEPT !.p_set = (h.row.name :> h.series) @@ @],
                      Tail(new))

\* _create_regional_loads: network.loads and network.loads_t after the call.
\* demand is the demand table, or "unusable" when reading it raises.
create_regional_loads(loads, loads_t, load_columns, buses, demand, province_mapping, load_carrier) ==
    LET base_load_pattern ==
            IF DOMAIN loads_t.p_set = {} THEN << >> ELSE RowSums(loads_t.p_set)
        fixable(l) == /\ "province" \in load_columns
                      /\ l.province # NA
                      /\ l.province \in Index(buses)
        fixed == [i \in 1..Len(loads) |->
                     IF loads[i].bus \notin Index(buses) /\ fixable(loads[i])
                     THEN [loads[i] EXCEPT !.bus = loads[i].province]
                     ELSE loads[i]]
        keep == {fixed[i].name : i \in {j \in 1..Len(fixed) :
                                          fixed[j].bus \in Index(buses)}}
        loads1 == SelectRows(fixed, keep)
        loads_t1 == [p_set |-> [c \in DOMAIN loads_t.p_set \cap keep |->
                                    loads_t.p_set[c]]]
        carrier == IF load_carrier = "None" THEN << >> ELSE <<load_carrier>>
    IN  IF demand = "unusable"
        THEN AddRegionalLoads(loads1, loads_t1,
                 [i \in 1..Len(buses) |->
                     [row |-> [name |-> LoadName(buses[i].name),
                               bus |-> buses[i].name, province |-> NA,
                               p_set |-> R(1000), carrier |-> carrier],
                      series |-> << >>]])
        ELSE
        LET named == [i \in 1..Len(demand) |->
                         [demand[i] EXCEPT !.province =
                              standardize_region_name(@, province_mapping)]]
            demand_df == SelectSeq(named, LAMBDA row : row.province # TotalRow)
            total_demand == SeriesSum(Column(demand_df, "demand"))
            ratio(row) == RDiv(row.demand, total_demand)
            used == SelectSeq(demand_df,
                        LAMBDA row : /\ row.province \in Index(buses)
                                     /\ ~IsNaN(ratio(row))
                                     /\ RLess(R(0), ratio(row)))
        IN  AddRegionalLoads(loads1, loads_t1,
                [i \in 1..Len(used) |->
                    [row |-> [name |-> LoadName(used[i].province),
                              bus |-> used[i].province, province |-> NA,
                              p_set |-> IF base_load_pattern = << >>
                                        THEN used[i].demand
                                        ELSE RMul(SeriesMean(base_load_pattern),
                                                  ratio(used[i])),
                              carrier |-> carrier],
                     series |-> [t \in 1..Len(base_load_pattern) |->
                                    RMul(base_load_pattern[t], ratio(used[i]))]]])

\* ------------------------------------------------------------------------
\* libs/aggregators.py
\* ------------------------------------------------------------------------
\* the generator columns of the model; province is the region column
GeneratorColumns == <<"bus", "province", "carrier", "p_nom", "marginal_cost">>

StringColumns == {"bus", "province", "carrier"}

\* standard_attrs (lines 116-121) restricted to the model's columns
StandardAttrs == {"bus", "carrier", "p_nom", "marginal_cost"}

KnownRules == {"carrier", "region", "p_nom", "oldest", "smallest", "newest",
               "largest", "sum", "mean", "remove", "ignore"}

\* what network.add leaves in a standard attribute it was not given, and what
\* a custom column holds for a row that never set it
DefaultValue(col) ==
    CASE col \in {"bus", "carrier"} -> << >>
      [] col = "province" -> NA
      [] col \in {"p_nom", "marginal_cost"} -> R(0)

\* alphabetical order of the string values of the model
Collation == <<<<"A">>, <<"A", "_", "B">>, <<"B">>, <<"C">>,
               <<"b1">>, <<"b2">>, <<"b3">>,
               <<"coal">>, <<"coal", "_", "A">>, <<"gas">>, NA>>

IsMissing(col, v) == IF col \in StringColumns THEN v = NA ELSE IsNaN(v)

\* a rule that is no rule name is stored as the merged value itself
Literal(rule) == <<"value", rule, "as", "written", "">>

IsLiteral(v) == Len(v) = 5 /\ v[1] = "value"

\* carrier.astype(str) + '___' + region.astype(str)
GroupKeyOf(g, group_by_region) ==
    IF group_by_region THEN g.carrier \o <<"___">> \o g.province ELSE g.carrier

\* f"{carrier}_{region}" or f"{carrier}_aggregated"
MergedName(carrier, region, group_by_region) ==
    IF group_by_region THEN carrier \o <<"_">> \o region
    ELSE carrier \o <<"_", "aggregated">>

\* drop_duplicates(): the positions of the first row of every distinct
\* (carrier, region, _group_key), in index order
UniqueGroups(generators, group_by_region) ==
    LET sig(g) == <<g.carrier, IF group_by_region THEN g.province ELSE NA>>
    IN  SelectSeq([i \in 1..Len(generators) |-> i],
                  LAMBDA i : \A j \in 1..(i - 1) : sig(generators[j]) # sig(generators[i]))

\* a grouping that forgets the region half of the key
RECURSIVE RowsWithCarrierOnly(_, _, _)
RowsWithCarrierOnly(generators, key, group_by_region) ==
    IF generators = << >> THEN << >>
    ELSE (IF SubSeq(key, 1, Len(Head(generators).carrier)) = Head(generators).carrier
          THEN <<Head(generators)>> ELSE << >>)
         \o RowsWithCarrierOnly(Tail(generators), key, group_by_region)

RECURSIVE RowsWithKey(_, _, _)
RowsWithKey(generators, key, group_by_region) ==
    IF generators = << >> THEN << >>
    ELSE (IF GroupKeyOf(Head(generators), group_by_region) = key
          THEN <<Head(generators)>> ELSE << >>)
         \o RowsWithKey(Tail(generators), key, group_by_region)

\* idxmin in place of idxmax
IdxMin(group) ==
    LET m == SeriesMin(Column(group, "p_nom"))
    IN  CHOOSE i \in 1..Len(group) :
            /\ group[i].p_nom = m
            /\ \A j \in 1..(i - 1) : group[j].p_nom # m

\* Series.idxmax(): position of the first largest p_nom (p_nom is a standard
\* attribute, which PyPSA never leaves missing)
IdxMax(group) ==
    LET m == SeriesMax(Column(group, "p_nom"))
    IN  CHOOSE i \in 1..Len(group) :
            /\ group[i].p_nom = m
            /\ \A j \in 1..(i - 1) : group[j].p_nom # m

RECURSIVE StrConcat(_)
StrConcat(s) ==
    IF s = << >> THEN << >> ELSE Head(s) \o StrConcat(Tail(s))

StrExtreme(values, least) ==
    LET present == {i \in 1..Len(values) : values[i] # NA}
    IN  IF present = {} THEN NA
        ELSE values[CHOOSE i \in present : \A j \in present :
                 IF least
                 THEN Rank(values[i], Collation) <= Rank(values[j], Collation)
                 ELSE Rank(values[i], Collation) >= Rank(values[j], Collation)]

\* the rule chain of lines 174-202 for one column of one group
MergedAttr(col, rule, group, carrier, region, group_by_region, province_mapping) ==
    LET values == [i \in 1..Len(group) |-> group[i][col]]
        largest_gen_idx == IdxMax(group)
    IN  CASE rule = "carrier" -> carrier
          [] rule = "region" ->
                 IF ~group_by_region THEN DefaultValue(col)
                 ELSE IF col = "bus"
                      THEN standardize_region_name(region, province_mapping)
                      ELSE region
          [] rule = "p_nom" -> group[largest_gen_idx][col]
          [] rule \in {"oldest", "smallest"} ->
                 IF col \in StringColumns THEN StrExtreme(values, TRUE)
                 ELSE SeriesMin(values)
          [] rule \in {"newest", "largest"} ->
                 IF col \in StringColumns THEN StrExtreme(values, FALSE)
                 ELSE SeriesMax(values)
          [] rule = "sum" ->
                 IF col \in StringColumns
                 THEN StrConcat(SelectSeq(values, LAMBDA v : v # NA))
                 ELSE SeriesSum(values)
          [] rule = "mean" ->
                 IF col \in StringColumns THEN NA ELSE SeriesMean(values)
          [] OTHER -> Literal(rule)

\* pandas raises TypeError for the mean of a column of strings
GroupRaises(rules) ==
    \E i \in 1..Len(GeneratorColumns) :
        /\ GeneratorColumns[i] \in StringColumns
        /\ Get(rules, GeneratorColumns[i], Get(rules, "others", "sum")) = "mean"

\* the merged row of one group as network.add and the custom-attribute loop
\* (lines 246-253) store it: a removed or missing attribute keeps its default
MergedGenerator(group, rules, group_by_region, province_mapping) ==
    LET carrier == group[1].carrier
        region == group[1].province
        default_rule == Get(rules, "others", "sum")
        attr(col) ==
            LET rule == Get(rules, col, default_rule)
                v == MergedAttr(col, rule, group, carrier, region,
                                group_by_region, province_mapping)
            IN  IF rule \in {"remove", "ignore"} THEN DefaultValue(col)
                ELSE IF IsLiteral(v) THEN v
                ELSE IF IsMissing(col, v) THEN DefaultValue(col)
                ELSE v
    IN  [name |-> MergedName(carrier, region, group_by_region),
         bus |-> attr("bus"),
         province |-> attr("province"),
         carrier |-> attr("carrier"),
         p_nom |-> attr("p_nom"),
         marginal_cost |-> attr("marginal_cost")]

\* the groups the loop of lines 132-211 keeps: unique_groups without the
\* rows whose carrier (or region, when grouping by region) is missing; each
\* entry is the list of member rows (the string key is injective on the
\* (carrier, region) pairs of the model, so no two entries share a key)
GeneratorGroups(generators, group_by_region) ==
    LET first == SelectSeq(UniqueGroups(generators, group_by_region),
                     LAMBDA i : /\ generators[i].carrier # NA
                                /\ (group_by_region => generators[i].province # NA))
    IN  [k \in 1..Len(first) |->
            RowsWithKey(generators,
                        GroupKeyOf(generators[first[k]], group_by_region),
                        group_by_region)]

\* DataFrame.sum/mean/max/min(axis=1) over the columns cols of one table
ReduceColumns(table, cols, ts_rule) ==
    LET n == Len(table[cols[1]])
        row(t) == [c \in 1..Len(cols) |-> table[cols[c]][t]]
    IN  [t \in 1..n |->
            CASE ts_rule = "sum" -> SeriesSum(row(t))
              [] ts_rule = "mean" -> SeriesMean(row(t))
              [] ts_rule = "max" -> SeriesMax(row(t))
              [] ts_rule = "min" -> SeriesMin(row(t))
              [] OTHER -> SeriesMean(row(t))]

\* a deviation of the time-series pass: every merged generator gets a
\* column, filled with the default where its group has no data
AggregateTimeSeriesForAll(table, groups, ts_rule, group_by_region) ==
    LET name(k) == MergedName(groups[k][1].carrier, groups[k][1].province,
                              group_by_region)
        in_ts(k) == SelectSeq(Column(groups[k], "name"),
                              LAMBDA g : g \in DOMAIN table)
    IN  [m \in {name(k) : k \in 1..Len(groups)} |->
            LET k == CHOOSE j \in 1..Len(groups) : name(j) = m
            IN  IF Len(in_ts(k)) > 0 THEN ReduceColumns(table, in_ts(k), ts_rule)
                ELSE <<R(1), R(1)>>]

\* lines 255-304 for one generators_t table that had columns before the pass
AggregateTimeSeries(table, groups, ts_rule, group_by_region) ==
    LET name(k) == MergedName(groups[k][1].carrier, groups[k][1].province,
                              group_by_region)
        in_ts(k) == SelectSeq(Column(groups[k], "name"),
                              LAMBDA g : g \in DOMAIN table)
        with_data == {k \in 1..Len(groups) : Len(in_ts(k)) > 0}
    IN  IF with_data = {} THEN << >>
        ELSE [m \in {name(k) : k \in with_data} |->
                 \* a later group of the same name overwrites an earlier one
                 LET k == CHOOSE j \in with_data :
                              /\ name(j) = m
                              /\ \A i \in with_data : name(i) = m => i <= j
                 IN  ReduceColumns(table, in_ts(k), ts_rule)]

\* network.add("Generator", ...) for the merged rows in order; PyPSA refuses
\* a name that is already in the table, which aborts the pass
RECURSIVE AddGenerators(_, _)
AddGenerators(added, rest) ==
    IF rest = << >> THEN [raised |-> FALSE, generators |-> added]
    ELSE IF Head(rest).name \in Index(added)
         THEN [raised |-> TRUE, generators |-> added]
         ELSE AddGenerators(Append(added, Head(rest)), Tail(rest))

\* aggregate_generators_by_carrier_and_region: the generator table and its
\* time series after the call, and whether the call raised
aggregate_generators_by_carrier_and_region(generators, generators_t, columns, cfg, region_column, province_mapping) ==
    LET unchanged == [raised |-> FALSE, generators |-> generators,
                      generators_t |-> generators_t]
        group_by_region == region_column # "None" /\ region_column \in columns
    IN  IF "carrier" \notin columns THEN unchanged
        ELSE IF "generator_region_aggregator_rules" \notin DOMAIN cfg THEN unchanged
        ELSE
        LET rules == cfg["generator_region_aggregator_rules"]
            ts_rules == Get(cfg, "generator_t_aggregator_rules", << >>)
            ts_default_rule == Get(ts_rules, "others", "mean")
            groups == GeneratorGroups(generators, group_by_region)
        IN  IF Len(groups) > 0 /\ GroupRaises(rules) THEN
                [unchanged EXCEPT !.raised = TRUE]
            ELSE
            LET merged == [k \in 1..Len(groups) |->
                              MergedGenerator(groups[k], rules, group_by_region,
                                              province_mapping)]
                added == AddGenerators(<< >>, merged)
                removed_t == [attr \in DOMAIN generators_t |-> << >>]
            IN  IF added.raised
                THEN [raised |-> TRUE, generators |-> added.generators,
                      generators_t |-> removed_t]
                ELSE [raised |-> FALSE,
                      generators |-> added.generators,
                      generators_t |->
                          [attr \in DOMAIN generators_t |->
                              IF DOMAIN generators_t[attr] = {} THEN << >>
                              ELSE AggregateTimeSeries(generators_t[attr], groups,
                                       Get(ts_rules, attr, ts_default_rule),
                                       group_by_region)]]

\* ------------------------------------------------------------------------
\* libs/resample.py
\* A time-indexed table is [index, data]: the time stamps of its rows and one
\* value sequence per column.
\* ------------------------------------------------------------------------
\* an optional argument: None, or the value in a one-element sequence
None == << >>

Some(v) == <<v>>

\* the `*_t` attributes of the network
TimeComponents == {"generators_t", "loads_t", "storage_units_t"}

\* DataFrame.empty: no rows or no columns
IsEmpty(df) == Len(df.index) = 0 \/ DOMAIN df.data = {}

\* the (component, attribute) pairs of all time-indexed tables
TimeTables(net) ==
    UNION {{<<c, a>> : a \in DOMAIN net[c]} : c \in TimeComponents}

\* Index.searchsorted(value), side 'left', on a sorted index
SearchSorted(index, value) ==
    Cardinality({i \in 1..Len(index) : index[i] < value})

\* seq[start_idx:end_idx] with Python's clipping, for indexes >= 0
Slice(seq, start_idx, end_idx) ==
    LET hi == IF end_idx < Len(seq) THEN end_idx ELSE Len(seq)
    IN  IF start_idx >= hi THEN << >> ELSE SubSeq(seq, start_idx + 1, hi)

\* df.iloc[start_idx:end_idx]
LimitedTable(df, start_idx, end_idx) ==
    [index |-> Slice(df.index, start_idx, end_idx),
     data |-> [c \in DOMAIN df.data |-> Slice(df.data[c], start_idx, end_idx)]]

\* the default PyPSA fills a reindexed time series with
FillValue(attr) ==
    IF attr = "p_max_pu" THEN R(1) ELSE R(0)

\* DataFrame.reindex(snapshots, fill_value = default)
Reindexed(df, attr, snapshots) ==
    [index |-> snapshots,
     data |-> [c \in DOMAIN df.data |->
                 [i \in 1..Len(snapshots) |->
                     IF \E j \in 1..Len(df.index) : df.index[j] = snapshots[i]
                     THEN df.data[c][CHOOSE j \in 1..Len(df.index) :
                                         df.index[j] = snapshots[i]]
                     ELSE FillValue(attr)]]]

\* network.snapshots = snapshots: the setter of pypsa.Network replaces the
\* axis and reindexes every time-indexed table to it
SetSnapshots(net, snapshots) ==
    [f \in DOMAIN net |->
        IF f = "snapshots" THEN snapshots
        ELSE IF f \in TimeComponents
             THEN [a \in DOMAIN net[f] |-> Reindexed(net[f][a], a, snapshots)]
             ELSE net[f]]

\* the label of the bucket that ends at or after t
BucketUp(t, weights) == ((t + weights - 1) \div weights) * weights

\* the label of the bucket of time stamp t under resample(f'{weights}h'):
\* buckets are counted from midnight of the first day
Bucket(t, weights) == (t \div weights) * weights

\* the index of Series.resample(rule): every bucket from the first time
\* stamp's to the last one's
BucketLabels(index, weights) ==
    IF index = << >> THEN << >>
    ELSE LET first == Bucket(index[1], weights)
             last == Bucket(index[Len(index)], weights)
         IN  [i \in 1..((last - first) \div weights + 1) |->
                 first + (i - 1) * weights]

\* the values of one column that fall into the bucket labelled b
BucketValues(index, values, b, weights) ==
    LET rows == {i \in 1..Len(index) : Bucket(index[i], weights) = b}
        RECURSIVE pick(_)
        pick(i) == IF i > Len(index) THEN << >>
                   ELSE IF i \in rows THEN <<values[i]>> \o pick(i + 1)
                        ELSE pick(i + 1)
    IN  pick(1)

\* a deviation of the reduction: every bucket is summed
ReduceBySum(how, values) == SeriesSum(values)

\* Resampler.mean / sum / max / min of one bucket
Reduce(how, values) ==
    CASE how = "mean" -> SeriesMean(values)
      [] how = "sum" -> SeriesSum(values)
      [] how = "max" -> SeriesMax(values)
      [] how = "min" -> SeriesMin(values)

\* df.resample(f'{weights}h').<how>()
Resampled(df, weights, how) ==
    LET labels == BucketLabels(df.index, weights)
    IN  [index |-> labels,
         data |-> [c \in DOMAIN df.data |->
                     [i \in 1..Len(labels) |->
                         Reduce(how, BucketValues(df.index, df.data[c],
                                                  labels[i], weights))]]]

\* a deviation of the table loop: the tables are left as they are
KeepTable(df, weights) == df

\* the loop of resample_network over the time-indexed tables (lines
\* 134-154): every non-empty table is resampled with the mean
ResampleTable(df, weights) ==
    IF IsEmpty(df) THEN df ELSE Resampled(df, weights, "mean")

\* the loop of limit_snapshots over the time-indexed tables (lines 58-79)
LimitTable(df, start_idx, end_idx) ==
    IF IsEmpty(df) THEN df ELSE LimitedTable(df, start_idx, end_idx)

\* str.endswith('_t') on a component name
EndsWithT(component) ==
    Len(component) > 1 /\ component[Len(component)] = "_t"

StaticComponents == {"generators", "storage_units"}

\* component_class.defaults.loc[attribute, 'default']
PyPSADefault(attribute) ==
    CASE attribute = "ramp_limit_up" -> NaN
      [] attribute = "standing_loss" -> R(0)
      [] attribute = "p_nom" -> R(0)
      [] OTHER -> R(0)

\* a rule row that scales its column whatever its rule
ScaleWhateverRule(component_df, rule_row, weights) ==
    IF component_df = << >> THEN component_df
    ELSE IF rule_row.attribute \notin DOMAIN component_df[1] THEN component_df
    ELSE [i \in 1..Len(component_df) |->
             [component_df[i] EXCEPT ![rule_row.attribute] = RMul(@, R(weights))]]

\* one rule row applied to its component table (lines 204-244)
ApplyStaticRule(component_df, rule_row, weights) ==
    LET attribute == rule_row.attribute
        rule == rule_row.rule
    IN  IF component_df = << >> THEN component_df
        ELSE IF attribute \notin DOMAIN component_df[1] THEN component_df
        ELSE IF rule = "scale" THEN
            [i \in 1..Len(component_df) |->
                [component_df[i] EXCEPT ![attribute] = RMul(@, R(weights))]]
        ELSE IF rule = "fixed" /\ rule_row.value # None THEN
            [i \in 1..Len(component_df) |->
                [component_df[i] EXCEPT ![attribute] = rule_row.value]]
        ELSE IF rule = "default" THEN
            [i \in 1..Len(component_df) |->
                [component_df[i] EXCEPT ![attribute] = PyPSADefault(attribute)]]
        ELSE component_df

\* _resample_static_components: the rows of the static components, each
\* applied to the whole table of its component, in the order of the table
RECURSIVE resample_static_components(_, _, _)
resample_static_components(net, resample_rules, weights) ==
    IF resample_rules = << >> THEN net
    ELSE LET row == Head(resample_rules)
             name == row.component[1]
         IN  resample_static_components(
                 IF ~EndsWithT(row.component) /\ name \in StaticComponents
                 THEN [net EXCEPT ![name] = ApplyStaticRule(@, row, weights)]
                 ELSE net,
                 Tail(resample_rules), weights)

\* ------------------------------------------------------------------------
\* libs/cc_merger.py
\* ------------------------------------------------------------------------
CCColumns == GeneratorColumns \o <<"cc_group">>

CCStringColumns == StringColumns \cup {"cc_group"}

\* the rule names merge_cc_generators tests for (lines 85-96)
CCKnownRules == {"cc_group", "p_nom", "oldest", "smallest", "newest",
                 "largest", "sum", "mean"}

\* f"{group_name}_CC"
CCName(group_name) == group_name \o <<"_", "CC">>

\* network.generators.loc[cc_mask, 'cc_group'].unique(): the group names in
\* the order of their first row
CCGroups(generators) ==
    LET named == SelectSeq(generators, LAMBDA g : g.cc_group # NA)
        first == SelectSeq([i \in 1..Len(named) |-> i],
                     LAMBDA i : \A j \in 1..(i - 1) :
                                    named[j].cc_group # named[i].cc_group)
    IN  [k \in 1..Len(first) |-> named[first[k]].cc_group]

\* the rule chain of lines 85-99 for one column of one group
CCMergedAttr(col, rule, group, group_name) ==
    LET values == [i \in 1..Len(group) |-> group[i][col]]
        largest_gen_idx == IdxMax(group)
    IN  CASE rule = "cc_group" -> group_name
          [] rule = "p_nom" -> group[largest_gen_idx][col]
          [] rule \in {"oldest", "smallest"} ->
                 IF col \in CCStringColumns THEN StrExtreme(values, TRUE)
                 ELSE SeriesMin(values)
          [] rule \in {"newest", "largest"} ->
                 IF col \in CCStringColumns THEN StrExtreme(values, FALSE)
                 ELSE SeriesMax(values)
          [] rule = "sum" ->
                 IF col \in CCStringColumns
                 THEN StrConcat(SelectSeq(values, LAMBDA v : v # NA))
                 ELSE SeriesSum(values)
          [] rule = "mean" ->
                 IF col \in CCStringColumns THEN NA ELSE SeriesMean(values)
          [] OTHER -> group[largest_gen_idx][col]

\* pandas raises TypeError for the mean of a column of strings
CCGroupRaises(rules) ==
    \E i \in 1..Len(CCColumns) :
        /\ CCColumns[i] \in CCStringColumns
        /\ Get(rules, CCColumns[i], Get(rules, "others", "p_nom")) = "mean"

\* the merged row of one group as lines 105-120 store it: an attribute
\* whose merged value is missing keeps its default
CCMergedGenerator(group, rules) ==
    LET group_name == group[1].cc_group
        default_rule == Get(rules, "others", "p_nom")
        attr(col) ==
            LET v == CCMergedAttr(col, Get(rules, col, default_rule), group,
                                  group_name)
            IN  IF col \in CCStringColumns
                THEN (IF v = NA THEN (IF col = "cc_group" THEN NA
                                      ELSE DefaultValue(col))
                      ELSE v)
                ELSE (IF IsNaN(v) THEN DefaultValue(col) ELSE v)
    IN  [name |-> CCName(group_name),
         bus |-> attr("bus"),
         province |-> attr("province"),
         carrier |-> attr("carrier"),
         p_nom |-> attr("p_nom"),
         marginal_cost |-> attr("marginal_cost"),
         cc_group |-> attr("cc_group")]

\* the loop of lines 75-120 over the remaining groups: each group is merged,
\* its generators removed and the merged one added before the next group is
\* looked at; an exception leaves the table as it is at that moment
RECURSIVE MergeCCGroups(_, _, _, _)
MergeCCGroups(generators, generators_t, groups, rules) ==
    IF groups = << >>
    THEN [raised |-> FALSE, generators |-> generators,
          generators_t |-> generators_t]
    ELSE LET group == SelectSeq(generators,
                          LAMBDA g : g.cc_group = Head(groups))
             members == {group[i].name : i \in 1..Len(group)}
             rest == SelectRows(generators, Index(generators) \ members)
             rest_t == [attr \in DOMAIN generators_t |->
                           [c \in DOMAIN generators_t[attr] \ members |->
                               generators_t[attr][c]]]
         IN  IF CCGroupRaises(rules)
             THEN [raised |-> TRUE, generators |-> generators,
                   generators_t |-> generators_t]
             ELSE IF CCName(Head(groups)) \in Index(rest)
             THEN [raised |-> TRUE, generators |-> rest,
                   generators_t |-> rest_t]
             ELSE MergeCCGroups(Append(rest, CCMergedGenerator(group, rules)),
                                rest_t, Tail(groups), rules)

\* merge_cc_generators: the generator table and its time series after the
\* call, and whether the call raised
merge_cc_generators(generators, generators_t, columns, cfg) ==
    LET unchanged == [raised |-> FALSE, generators |-> generators,
                      generators_t |-> generators_t]
    IN  IF "cc_group" \notin columns THEN unchanged
        ELSE IF "cc_merge_rules" \notin DOMAIN cfg THEN unchanged
        ELSE IF CCGroups(generators) = << >> THEN unchanged
        ELSE MergeCCGroups(generators, generators_t, CCGroups(generators),
                           cfg["cc_merge_rules"])

\* the warnings merge_cc_generators prints (lines 38-48)
merge_cc_warnings(columns, cfg) ==
    IF "cc_group" \notin columns THEN {"No 'cc_group' column found"}
    ELSE IF "cc_merge_rules" \notin DOMAIN cfg THEN {"No cc_merge_rules in config"}
    ELSE {}

\* the warnings aggregate_generators_by_carrier_and_region prints (lines
\* 70-90 and 293-296)
aggregate_generators_warnings(generators, generators_t, columns, cfg, region_column) ==
    IF "carrier" \notin columns THEN {"No 'carrier' column found"}
    ELSE (IF region_column # "None" /\ region_column \notin columns
          THEN {"No region column found"} ELSE {})
         \cup
         (IF "generator_region_aggregator_rules" \notin DOMAIN cfg
          THEN {"No generator_region_aggregator_rules in config"}
          ELSE LET ts_rules == Get(cfg, "generator_t_aggregator_rules", << >>)
                   groups == GeneratorGroups(generators,
                                 region_column # "None" /\ region_column \in columns)
               IN  IF \E attr \in DOMAIN generators_t :
                        /\ DOMAIN generators_t[attr] # {}
                        /\ Get(ts_rules, attr, Get(ts_rules, "others", "mean"))
                               \notin {"sum", "mean", "max", "min"}
                        /\ \E k \in 1..Len(groups) : \E i \in 1..Len(groups[k]) :
                               groups[k][i].name \in DOMAIN generators_t[attr]
                   THEN {"Unknown time-series rule"} ELSE {})

\* ------------------------------------------------------------------------
\* Generator aggregation on its own: aggregate_generators_by_carrier_and_region
\* applied to bounded generator tables
\* ------------------------------------------------------------------------
GenRow(carrier, province, p_nom, marginal_cost) ==
    [carrier |-> carrier, province |-> province, bus |-> <<"b1">>,
     p_nom |-> R(p_nom), marginal_cost |-> R(marginal_cost)]

\* the rows generator tables are drawn from
GeneratorPool ==
    { GenRow(<<"coal">>, <<"A">>, 100, 10),
      GenRow(<<"coal">>, <<"A">>, 50, 12),
      GenRow(<<"gas">>, <<"A">>, 200, 7),
      GenRow(<<"coal">>, <<"A">>, 100, 7),
      GenRow(<<"coal">>, <<"B">>, 100, 12),
      GenRow(<<"gas">>, NA, 50, 10),
      GenRow(NA, <<"A">>, 50, 12),
      GenRow(<<"coal", "_", "A">>, <<"B">>, 50, 10),
      GenRow(<<"coal">>, <<"A", "_", "B">>, 200, 7) }

GeneratorName(i) == <<"g", ToString(i)>>

GeneratorTables ==
    UNION { { [i \in 1..n |->
                 [name |-> GeneratorName(i), bus |-> rows[i].bus,
                  province |-> rows[i].province, carrier |-> rows[i].carrier,
                  p_nom |-> rows[i].p_nom, marginal_cost |-> rows[i].marginal_cost]]
              : rows \in [1..n -> GeneratorPool] }
            : n \in 1..MaxGens }

\* generators_t.p_max_pu over two snapshots, with a column for the first
\* `cols` generators
GeneratorSeries(generators, cols) ==
    [attr \in {"p_max_pu"} |->
        [g \in {generators[i].name : i \in 1..Len(generators) \cap 1..cols} |->
            LET i == CHOOSE j \in 1..Len(generators) : generators[j].name = g
            IN  <<R(i), RMul(R(i), generators[i].marginal_cost)>>]]

StringRules == [bus |-> "region", province |-> "region", carrier |-> "carrier"]

GeneratorConfigs ==
    { [generator_region_aggregator_rules |->
           StringRules @@ [p_nom |-> "sum", marginal_cost |-> "p_nom"]],
      [generator_region_aggregator_rules |->
           StringRules @@ [p_nom |-> "sum"],
       generator_t_aggregator_rules |-> [p_max_pu |-> "sum"]],
      [generator_region_aggregator_rules |->
           StringRules @@ [p_nom |-> "largest", marginal_cost |-> "mean",
                           others |-> "p_nom"],
       generator_t_aggregator_rules |-> [others |-> "max"]],
      [generator_region_aggregator_rules |->
           [bus |-> "p_nom", province |-> "remove", carrier |-> "carrier",
            p_nom |-> "sum", marginal_cost |-> "median"]],
      [generator_region_aggregator_rules |->
           StringRules @@ [p_nom |-> "sum", marginal_cost |-> "smallest"]],
      [generator_region_aggregator_rules |->
           StringRules @@ [p_nom |-> "sum", marginal_cost |-> "largest"]],
      [generator_t_aggregator_rules |-> [p_max_pu |-> "sum"]] }

AllColumns == {"bus", "province", "carrier", "p_nom", "marginal_cost"}

\* tables of any size with every column, and one-row tables that lack the
\* carrier or the region column
InitGen ==
    /\ \E generators \in GeneratorTables, cols \in {0, 2} :
         \E columns \in (IF Len(generators) = 1
                         THEN {AllColumns, AllColumns \ {"province"},
                               AllColumns \ {"carrier"}}
                         ELSE {AllColumns}) :
            network = [generators |-> generators,
                       generators_t |-> GeneratorSeries(generators, cols),
                       generator_columns |-> columns]
    /\ config = << >>
    /\ args = << >>
    /\ local = << >>
    /\ before = network
    /\ pc = "ready"

AggregateGenerators ==
    /\ pc = "ready"
    /\ \E cfg \in GeneratorConfigs, region_column \in {"None", "province"} :
         LET out == aggregate_generators_by_carrier_and_region(
                        network.generators, network.generators_t,
                        network.generator_columns, cfg,
                        region_column, ProvinceMapping)
         IN  /\ network' = [network EXCEPT !.generators = out.generators,
                                           !.generators_t = out.generators_t]
             /\ config' = cfg
             /\ args' = [region_column |-> region_column,
                         province_mapping |-> ProvinceMapping]
             /\ local' = [warnings |-> aggregate_generators_warnings(
                                           network.generators,
                                           network.generators_t,
                                           network.generator_columns, cfg,
                                           region_column)]
             /\ pc' = IF out.raised THEN "raised" ELSE "done"
    /\ UNCHANGED before

NextGen == AggregateGenerators

SpecGen == InitGen /\ [][NextGen]_vars

\* --- properties of generator aggregation ---------------------------------
GenGroupByRegion ==
    args.region_column = "province" /\ "province" \in before.generator_columns

GenPassRan ==
    /\ pc = "done"
    /\ "carrier" \in before.generator_columns
    /\ "generator_region_aggregator_rules" \in DOMAIN config

GenRule(col) ==
    LET rules == config["generator_region_aggregator_rules"]
    IN  IF col \in DOMAIN rules THEN rules[col]
        ELSE IF "others" \in DOMAIN rules THEN rules["others"] ELSE "sum"

\* the (carrier, region) pairs that name a group of the old table
GenGroupPairs ==
    {p \in {<<before.generators[i].carrier,
              IF GenGroupByRegion THEN before.generators[i].province ELSE <<"-">>>> :
                i \in 1..Len(before.generators)} :
        p[1] # NA /\ p[2] # NA}

GenMembers(p) ==
    {i \in 1..Len(before.generators) :
        /\ before.generators[i].carrier = p[1]
        /\ GenGroupByRegion => before.generators[i].province = p[2]}

RECURSIVE TotalOver(_, _)
TotalOver(S, col) ==
    IF S = {} THEN R(0)
    ELSE LET i == CHOOSE j \in S : TRUE
             v == before.generators[i][col]
         IN  IF IsNaN(v) THEN TotalOver(S \ {i}, col)
             ELSE RAdd(v, TotalOver(S \ {i}, col))

\* C4: after aggregate_generators_by_carrier_and_region, every merged
\* generator holds, for every attribute whose rule is 'sum', the sum of that
\* attribute over exactly the old generators of its (carrier[, region]) group.
C4_SumRuleIsGroupSum ==
    GenPassRan =>
        \A k \in 1..Len(network.generators) :
            \E p \in GenGroupPairs :
                /\ network.generators[k].name = MergedName(p[1], p[2], GenGroupByRegion)
                /\ \A col \in {"p_nom", "marginal_cost"} :
                       GenRule(col) = "sum" =>
                           network.generators[k][col] = TotalOver(GenMembers(p), col)

\* a pass that merged two generators of one region next to a group of another
C4_Witness ==
    /\ GenPassRan
    /\ GenGroupByRegion
    /\ GenRule("p_nom") = "sum"
    /\ Len(network.generators) = 2
    /\ \E p \in GenGroupPairs, q \in GenGroupPairs :
           /\ Cardinality(GenMembers(p)) = 2
           /\ q[1] = p[1] /\ q[2] # p[2]

ScenarioRows ==
    <<GenRow(<<"coal">>, <<"A">>, 100, 10), GenRow(<<"coal">>, <<"A">>, 50, 12),
      GenRow(<<"gas">>, <<"A">>, 200, 7)>>

IsScenario ==
    /\ Len(before.generators) = 3
    /\ \A i \in 1..3 :
          /\ before.generators[i].carrier = ScenarioRows[i].carrier
          /\ before.generators[i].p_nom = ScenarioRows[i].p_nom
          /\ before.generators[i].marginal_cost = ScenarioRows[i].marginal_cost
          /\ before.generators[i].province = ScenarioRows[i].province
    /\ GenRule("carrier") = "carrier"
    /\ GenRule("p_nom") = "sum"
    /\ GenRule("marginal_cost") = "p_nom"

\* C6: an attribute under the rule 'p_nom' takes the value of the group
\* member with the largest p_nom (the first such member), and the scenario
\* coal/coal/gas, 100/50/200, 10/12/7 merges to coal 150 at cost 10 and gas
\* 200 at cost 7.
C6_PickByLargestCapacity ==
    GenPassRan =>
        /\ GenRule("marginal_cost") = "p_nom" =>
             \A k \in 1..Len(network.generators) :
                \E p \in GenGroupPairs :
                    /\ network.generators[k].name =
                           MergedName(p[1], p[2], GenGroupByRegion)
                    /\ \E i \in GenMembers(p) :
                          /\ \A j \in GenMembers(p) :
                                ~RLess(before.generators[i].p_nom,
                                       before.generators[j].p_nom)
                          /\ \A j \in GenMembers(p) :
                                j < i => before.generators[j].p_nom
                                            # before.generators[i].p_nom
                          /\ network.generators[k].marginal_cost =
                                 before.generators[i].marginal_cost
        /\ IsScenario =>
             /\ Len(network.generators) = 2
             /\ network.generators[1].carrier = <<"coal">>
             /\ network.generators[1].p_nom = R(150)
             /\ network.generators[1].marginal_cost = R(10)
             /\ network.generators[2].carrier = <<"gas">>
             /\ network.generators[2].p_nom = R(200)
             /\ network.generators[2].marginal_cost = R(7)

\* the scenario has been aggregated
C6_Witness == GenPassRan /\ IsScenario /\ Len(network.generators) = 2

\* the groups with at least one member that has a column in the table
GroupsWithData(attr) ==
    {p \in GenGroupPairs :
        \E i \in GenMembers(p) :
            before.generators[i].name \in DOMAIN before.generators_t[attr]}

\* C13: after aggregate_generators_by_carrier_and_region, every generators_t
\* table that had columns before the pass has exactly one column per merged
\* generator whose group had a member with a column in that table; each
\* column names a generator of network.generators, and a group without
\* time-series data has no column.
C13_SeriesColumnsAreMergedNames ==
    GenPassRan =>
        \A attr \in DOMAIN before.generators_t :
            DOMAIN before.generators_t[attr] # {} =>
                /\ DOMAIN network.generators_t[attr] =
                       {MergedName(p[1], p[2], GenGroupByRegion) :
                            p \in GroupsWithData(attr)}
                /\ DOMAIN network.generators_t[attr] \subseteq Index(network.generators)

\* a pass over a table in which one group has time series and another has
\* none: the first has a column afterwards, the second is a generator
\* without a column
C13_Witness ==
    /\ GenPassRan
    /\ GroupsWithData("p_max_pu") # {}
    /\ GroupsWithData("p_max_pu") # GenGroupPairs
    /\ \E k \in 1..Len(network.generators) :
          network.generators[k].name \notin DOMAIN network.generators_t.p_max_pu
    /\ \E k \in 1..Len(network.generators) :
          network.generators[k].name \in DOMAIN network.generators_t.p_max_pu

\* ------------------------------------------------------------------------
\* Edge merging on its own: _aggregate_lines_by_region and
\* _aggregate_links_by_region applied to bounded line and link tables
\* ------------------------------------------------------------------------
\* b1 and b3 lie in region A, b2 in region B, b4 has no region
EdgeBusToRegion ==
    (<<"b1">> :> <<"A">>) @@ (<<"b2">> :> <<"B">>) @@ (<<"b3">> :> <<"A">>)

LineRow(bus0, bus1, v_nom, circuits, s_nom, r) ==
    [bus0 |-> bus0, bus1 |-> bus1, v_nom |-> v_nom, circuits |-> R(circuits),
     num_parallel |-> R(1), s_nom |-> R(s_nom),
     r |-> r, x |-> RMul(r, R(3)), b |-> RAdd(r, R(1))]

LinePool ==
    { LineRow(<<"b1">>, <<"b2">>, 345, 1, 10, <<1, 10>>),
      LineRow(<<"b1">>, <<"b2">>, 345, 1, 20, <<1, 5>>),
      LineRow(<<"b3">>, <<"b2">>, 345, 2, 0, <<1, 5>>),
      LineRow(<<"b2">>, <<"b1">>, 345, 1, 10, <<1, 10>>),
      LineRow(<<"b1">>, <<"b3">>, 345, 1, 10, <<1, 10>>),
      LineRow(<<"b1">>, <<"b4">>, 345, 1, 10, <<1, 10>>),
      LineRow(<<"b1">>, <<"b2">>, 154, 0, 0, <<1, 5>>),
      LineRow(<<"b3">>, <<"b2">>, 154, 0, 10, <<1, 10>>) }

LineTables ==
    UNION { { [i \in 1..n |-> [name |-> <<"l", ToString(i)>>] @@ rows[i]]
              : rows \in [1..n -> LinePool] }
            : n \in 0..MaxLines }

LinkRow(bus0, bus1, p_nom) ==
    [bus0 |-> bus0, bus1 |-> bus1, p_nom |-> R(p_nom), efficiency |-> <<9, 10>>]

LinkPool ==
    { LinkRow(<<"b1">>, <<"b2">>, 0),
      LinkRow(<<"b3">>, <<"b2">>, 5),
      LinkRow(<<"b2">>, <<"b1">>, 0),
      LinkRow(<<"b1">>, <<"b3">>, 5),
      LinkRow(<<"b4">>, <<"b2">>, 5) }

LinkTables ==
    UNION { { [i \in 1..n |-> [name |-> <<"k", ToString(i)>>] @@ rows[i]]
              : rows \in [1..n -> LinkPool] }
            : n \in 0..MaxLinks }

LineConfigs ==
    { << >>,
      [grouping |-> "ignore_voltage"],
      [remove_self_loops |-> FALSE],
      [impedance |-> "mean", s_nom |-> "sum"],
      [impedance |-> "min", s_nom |-> "max", circuits |-> "max"],
      [impedance |-> "max", s_nom |-> "scale_by_circuits", circuits |-> "mean"],
      [impedance |-> "weighted_by_circuits", s_nom |-> "keep_original",
       circuits |-> "sum", grouping |-> "by_voltage", remove_self_loops |-> TRUE] }

LinkConfigs ==
    { << >>,
      [remove_self_loops |-> FALSE],
      [p_nom |-> "max", unlimited_capacity |-> R(500)],
      [p_nom |-> "keep_original", default_efficiency |-> <<1, 2>>] }

InitEdges ==
    /\ \E lines \in LineTables, links \in LinkTables :
         /\ Len(lines) <= 1 \/ Len(links) <= 1
         /\ network = [lines |-> lines, links |-> links]
    /\ config = [lines |-> << >>, links |-> << >>]
    /\ args = [bus_to_region |-> EdgeBusToRegion]
    /\ local = << >>
    /\ before = network
    /\ pc = "ready"

\* step 4b of aggregate_network_by_region
AggregateLines ==
    /\ pc = "ready"
    /\ \E line_config \in LineConfigs :
         /\ config' = [config EXCEPT !.lines = line_config]
         /\ network' = [network EXCEPT !.lines =
                aggregate_lines_by_region(network.lines, line_config,
                                          args.bus_to_region)]
    /\ pc' = "lines"
    /\ UNCHANGED <<args, local, before>>

\* step 4c of aggregate_network_by_region
AggregateLinks ==
    /\ pc = "lines"
    /\ \E link_config \in LinkConfigs :
         /\ config' = [config EXCEPT !.links = link_config]
         /\ network' = [network EXCEPT !.links =
                aggregate_links_by_region(network.links, link_config,
                                          args.bus_to_region)]
    /\ pc' = "done"
    /\ UNCHANGED <<args, local, before>>

NextEdges == AggregateLines \/ AggregateLinks

SpecEdges == InitEdges /\ [][NextEdges]_vars

\* --- properties of edge merging -----------------------------------------
EdgeRegion(bus) ==
    IF bus \in DOMAIN args.bus_to_region THEN args.bus_to_region[bus] ELSE NA

LinesByVoltage ==
    "grouping" \notin DOMAIN config.lines \/ config.lines.grouping = "by_voltage"

LinesWeighted ==
    "impedance" \notin DOMAIN config.lines
        \/ config.lines.impedance = "weighted_by_circuits"

\* the old lines a merged line stands for: same region pair (and voltage)
LineMembers(m) ==
    {i \in 1..Len(before.lines) :
        /\ EdgeRegion(before.lines[i].bus0) = m.bus0
        /\ EdgeRegion(before.lines[i].bus1) = m.bus1
        /\ LinesByVoltage => before.lines[i].v_nom = m.v_nom}

RECURSIVE WeightedTotal(_, _, _)
WeightedTotal(S, attr, weighted) ==
    IF S = {} THEN R(0)
    ELSE LET i == CHOOSE j \in S : TRUE
             w == IF weighted THEN before.lines[i][attr] ELSE R(1)
         IN  RAdd(RMul(w, before.lines[i].circuits),
                  WeightedTotal(S \ {i}, attr, weighted))

\* C5: under weighted_by_circuits each of r, x, b of a merged line is
\* sum(value * circuits) / sum(circuits) over the parallel lines of its region
\* pair, so 0.1 and 0.2 with one circuit each merge to 0.15.
C5_ImpedanceWeightedByCircuits ==
    (pc # "ready" /\ LinesWeighted) =>
        \A k \in 1..Len(network.lines) :
            LET m == network.lines[k]
                S == LineMembers(m)
                circuits == WeightedTotal(S, "r", FALSE)
            IN  /\ S # {}
                /\ RLess(R(0), circuits) =>
                      \A attr \in {"r", "x", "b"} :
                          m[attr] = RDiv(WeightedTotal(S, attr, TRUE), circuits)
                /\ (/\ Cardinality(S) = 2
                    /\ \A i \in S : before.lines[i].circuits = R(1)
                    /\ {before.lines[i].r : i \in S} = {<<1, 10>>, <<1, 5>>})
                   => m.r = <<3, 20>>

\* lines of different impedance and different circuit counts were merged
C5_Witness ==
    /\ pc # "ready" /\ LinesWeighted
    /\ \E k \in 1..Len(network.lines) :
         LET S == LineMembers(network.lines[k])
         IN  /\ Cardinality(S) = 2
             /\ {before.lines[i].circuits : i \in S} = {R(1), R(2)}
             /\ {before.lines[i].r : i \in S} = {<<1, 10>>, <<1, 5>>}
             /\ network.lines[k].r = <<1, 6>>

\* ------------------------------------------------------------------------
\* Regional aggregation: aggregate_network_by_region, one action per step
\* ------------------------------------------------------------------------
MaxRegionGens == 2
MaxRegionEdges == 1

BusNames == <<<<"b1">>, <<"b2">>, <<"b3">>, <<"b4">>>>

BusTable(provinces) ==
    [i \in 1..Len(BusNames) |->
        [name |-> BusNames[i], province |-> provinces[i],
         v_nom |-> IF i = 2 THEN 154 ELSE 345]]

\* the province column of network.buses: with a bus that carries no
\* province, with an official name, and with one region for all buses
BusTables ==
    { BusTable(<<<<"A">>, <<"B">>, <<"A">>, NA>>),
      BusTable(<<<<"A", "do">>, <<"B">>, <<"A">>, <<"B">>>>),
      BusTable(<<<<"A">>, <<"A">>, <<"A">>, <<"A">>>>) }

RegionGeneratorPool ==
    { [GenRow(<<"coal">>, <<"A">>, 100, 10) EXCEPT !.bus = <<"b1">>],
      [GenRow(<<"coal">>, <<"A", "do">>, 50, 12) EXCEPT !.bus = <<"b3">>],
      [GenRow(<<"gas">>, <<"B">>, 200, 7) EXCEPT !.bus = <<"b2">>],
      [GenRow(<<"coal">>, NA, 50, 10) EXCEPT !.bus = <<"b4">>] }

RegionGeneratorTables ==
    UNION { { [i \in 1..n |-> [name |-> GeneratorName(i)] @@ rows[i]]
              : rows \in [1..n -> RegionGeneratorPool] }
            : n \in 0..MaxRegionGens }

StorageUnitTables ==
    { << >>, <<[name |-> <<"su1">>, bus |-> <<"b1">>, p_nom |-> R(10)]>> }

StoreTables ==
    { << >>, <<[name |-> <<"st1">>, bus |-> <<"b3">>, e_nom |-> R(10)]>> }

LoadRow(name, bus, province, p_set) ==
    [name |-> name, bus |-> bus, province |-> province, p_set |-> R(p_set),
     carrier |-> << >>]

\* network.loads with network.loads_t.p_set over two snapshots
LoadTables ==
    { [loads |-> << >>, p_set |-> << >>],
      [loads |-> <<LoadRow(<<"d1">>, <<"b1">>, <<"A">>, 3)>>,
       p_set |-> (<<"d1">> :> <<R(2), R(4)>>)],
      [loads |-> <<LoadRow(<<"d1">>, <<"b2">>, NA, 3)>>, p_set |-> << >>],
      [loads |-> <<LoadRow(<<"d1">>, <<"b1">>, <<"A">>, 3),
                   LoadRow(<<"d2">>, <<"b2">>, <<"B", "do">>, 1)>>,
       p_set |-> (<<"d1">> :> <<R(2), R(4)>>) @@ (<<"d2">> :> <<R(1), NaN>>)] }

\* config['province_demand']
DemandTables ==
    { "unusable",
      <<[province |-> <<"A", "do">>, demand |-> R(3)],
        [province |-> <<"B">>, demand |-> R(1)],
        [province |-> <<"C">>, demand |-> R(0)],
        [province |-> TotalRow, demand |-> R(4)]>>,
      <<[province |-> <<"A", "do">>, demand |-> R(3)],
        [province |-> <<"B">>, demand |-> R(1)]>> }

RegionConfigs ==
    { [regional_aggregation |-> << >>,
       province_mapping |-> ProvinceMapping, province_demand |-> "unusable"],
      [regional_aggregation |->
           [lines |-> [impedance |-> "weighted_by_circuits", s_nom |-> "sum"],
            links |-> [p_nom |-> "max"],
            aggregate_generators_by_carrier |-> TRUE, load_carrier |-> "load"],
       province_mapping |-> ProvinceMapping,
       province_demand |->
           CHOOSE d \in DemandTables : d # "unusable" /\ Len(d) = 4,
       generator_region_aggregator_rules |->
           StringRules @@ [p_nom |-> "sum", marginal_cost |-> "p_nom"]],
      [regional_aggregation |->
           [aggregate_generators_by_carrier |-> TRUE, load_carrier |-> ""],
       province_mapping |-> NoMapping,
       province_demand |->
           CHOOSE d \in DemandTables : d # "unusable" /\ Len(d) = 4,
       generator_region_aggregator_rules |->
           StringRules @@ [p_nom |-> "sum", marginal_cost |-> "mean"],
       generator_t_aggregator_rules |-> [p_max_pu |-> "sum"]],
      [regional_aggregation |-> [load_carrier |-> "load"],
       province_mapping |-> ProvinceMapping,
       province_demand |->
           CHOOSE d \in DemandTables : d # "unusable" /\ Len(d) = 2] }

EmptyNetwork ==
    [buses |-> << >>, generators |-> << >>,
     generators_t |-> [p_max_pu |-> << >>], generator_columns |-> AllColumns,
     lines |-> << >>, links |-> << >>,
     loads |-> << >>, loads_t |-> [p_set |-> << >>],
     load_columns |-> {"bus", "province", "p_set", "carrier"},
     storage_units |-> << >>, stores |-> << >>]

\* every component of the loaded network sits on a bus of the network
InitRegion ==
    /\ \E buses \in BusTables :
         \/ \E generators \in RegionGeneratorTables, cols \in {0, 1},
               storage_units \in StorageUnitTables, stores \in StoreTables,
               with_province \in BOOLEAN :
              network = [EmptyNetwork EXCEPT
                  !.buses = buses, !.generators = generators,
                  !.generators_t = GeneratorSeries(generators, cols),
                  !.generator_columns =
                      IF with_province THEN @ ELSE @ \ {"province"},
                  !.storage_units = storage_units, !.stores = stores]
         \/ \E lines \in LineTables, links \in LinkTables :
              /\ Len(lines) <= MaxRegionEdges /\ Len(links) <= MaxRegionEdges
              /\ network = [EmptyNetwork EXCEPT
                     !.buses = buses, !.lines = lines, !.links = links]
         \/ \E l \in LoadTables, with_province \in BOOLEAN :
              network = [EmptyNetwork EXCEPT
                  !.buses = buses, !.loads = l.loads,
                  !.loads_t = [p_set |-> l.p_set],
                  !.load_columns = IF with_province THEN @ ELSE @ \ {"province"}]
    /\ config = << >>
    /\ args = << >>
    /\ local = << >>
    /\ before = network
    /\ pc = "ready"

RegionalConfig == Get(config, "regional_aggregation", << >>)

\* step 2, after the configuration is read (lines 704-725)
CreateBusToRegionMapping ==
    /\ pc = "ready"
    /\ \E cfg \in RegionConfigs :
         /\ config' = cfg
         /\ args' = [region_column |-> "province",
                     province_mapping |-> cfg.province_mapping,
                     load_carrier |->
                         LET c == Get(Get(cfg, "regional_aggregation", << >>),
                                      "load_carrier", None)
                         IN  IF c = "" THEN "None" ELSE c]
         /\ local' = [bus_to_region |->
                          create_bus_to_region_mapping(network.buses,
                                                       cfg.province_mapping)]
    /\ pc' = "mapped"
    /\ UNCHANGED <<network, before>>

\* step 3 (line 728): the regional buses are added and every old bus removed
AggregateBuses ==
    /\ pc = "mapped"
    /\ network' = [network EXCEPT !.buses =
           aggregate_buses_by_region(network.buses, Regions(local.bus_to_region),
                                     local.bus_to_region)]
    /\ pc' = "buses"
    /\ UNCHANGED <<config, args, local, before>>

\* step 4a (line 734)
MapGenerators ==
    /\ pc = "buses"
    /\ network' = [network EXCEPT !.generators =
           IF args.region_column \in network.generator_columns
           THEN map_generators_to_regional_buses(network.generators,
                    network.buses, args.province_mapping)
           ELSE @]
    /\ pc' = "generators"
    /\ UNCHANGED <<config, args, local, before>>

\* step 4b (lines 737-740)
RegionLines ==
    /\ pc = "generators"
    /\ network' = [network EXCEPT !.lines =
           IF Len(network.lines) > 0
           THEN aggregate_lines_by_region(network.lines,
                    Get(RegionalConfig, "lines", << >>), local.bus_to_region)
           ELSE @]
    /\ pc' = "lines"
    /\ UNCHANGED <<config, args, local, before>>

\* step 4c (lines 743-746)
RegionLinks ==
    /\ pc = "lines"
    /\ network' = [network EXCEPT !.links =
           IF Len(network.links) > 0
           THEN aggregate_links_by_region(network.links,
                    Get(RegionalConfig, "links", << >>), local.bus_to_region)
           ELSE @]
    /\ pc' = "links"
    /\ UNCHANGED <<config, args, local, before>>

\* step 5 (lines 749-751)
RegionGenerators ==
    /\ pc = "links"
    /\ IF Get(RegionalConfig, "aggregate_generators_by_carrier", FALSE)
       THEN LET out == aggregate_generators_by_carrier_and_region(
                           network.generators, network.generators_t,
                           network.generator_columns, config,
                           args.region_column, args.province_mapping)
            IN  /\ network' = [network EXCEPT !.generators = out.generators,
                                              !.generators_t = out.generators_t]
                /\ pc' = IF out.raised THEN "raised" ELSE "carriers"
       ELSE /\ network' = network
            /\ pc' = "carriers"
    /\ UNCHANGED <<config, args, local, before>>

\* step 6 (lines 754-761), after which the pass returns
RegionLoads ==
    /\ pc = "carriers"
    /\ LET out == create_regional_loads(network.loads, network.loads_t,
                      network.load_columns, network.buses,
                      config.province_demand, args.province_mapping,
                      args.load_carrier)
       IN  network' = [network EXCEPT !.loads = out.loads,
                                      !.loads_t = out.loads_t]
    /\ pc' = "done"
    /\ UNCHANGED <<config, args, local, before>>

NextRegion ==
    \/ CreateBusToRegionMapping
    \/ AggregateBuses
    \/ MapGenerators
    \/ RegionLines
    \/ RegionLinks
    \/ RegionGenerators
    \/ RegionLoads

SpecRegion == InitRegion /\ [][NextRegion]_vars

\* --- properties of regional aggregation ----------------------------------
\* the buses the one-port components of the given tables sit on
OnePortBuses(net, tables) ==
    UNION {{net[t][i].bus : i \in 1..Len(net[t])} : t \in tables}

\* the end buses of the lines and links
BranchBuses(net) ==
    UNION {{net[t][i].bus0 : i \in 1..Len(net[t])} \cup
           {net[t][i].bus1 : i \in 1..Len(net[t])} : t \in {"lines", "links"}}

\* the loaded network: every bus reference resolves
WellFormedBefore ==
    OnePortBuses(before, {"generators", "loads", "storage_units", "stores"})
        \cup BranchBuses(before) \subseteq Index(before.buses)

\* C1: after aggregate_network_by_region returns, the bus of every generator,
\* load, storage unit and store, and both end buses of every line and link,
\* are identifiers present in network.buses.
C1_BusReferencesResolve ==
    pc = "done" =>
        OnePortBuses(network, {"generators", "loads", "storage_units", "stores"})
            \cup BranchBuses(network) \subseteq Index(network.buses)

\* C2: no step of aggregate_network_by_region removes an original bus that a
\* generator, a line or a link still references at that moment.
C2_RewrittenBeforeRemoved ==
    [][\A b \in Index(network.buses) \ Index(network'.buses) :
           b \notin OnePortBuses(network, {"generators"}) \cup BranchBuses(network)]_vars

\* ------------------------------------------------------------------------
\* Snapshot limiting and resampling: limit_snapshots, then resample_network,
\* as libs/main_group.py calls them, one action per step
\* ------------------------------------------------------------------------
\* hourly snapshots: n of them, the first at hour `first` of the first day
Hourly(first, n) == [i \in 1..n |-> first + i - 1]

\* a table over the snapshots with the given columns; g1 rises, g2 has a
\* missing value, d1 is constant
TimeTable(snapshots, cols) ==
    [index |-> snapshots,
     data |-> [c \in cols |->
                 [i \in 1..Len(snapshots) |->
                     CASE c = <<"g1">> -> R(snapshots[i] + 1)
                       [] c = <<"g2">> -> IF i = 2 THEN NaN ELSE <<i, 2>>
                       [] OTHER -> R(5)]]]

StaticGenerators ==
    <<[name |-> <<"g1">>, carrier |-> <<"coal">>, p_nom |-> R(100),
       ramp_limit_up |-> <<1, 5>>],
      [name |-> <<"g2">>, carrier |-> <<"nuclear">>, p_nom |-> R(50),
       ramp_limit_up |-> NaN]>>

StaticStorageUnits ==
    <<[name |-> <<"su1">>, carrier |-> <<"hydro">>, p_nom |-> R(10),
       standing_loss |-> <<1, 100>>]>>

RuleRow(component, attribute, carrier, rule, value) ==
    [component |-> component, attribute |-> attribute, carrier |-> carrier,
     rule |-> rule, value |-> value]

\* pd.DataFrame(rows) / pd.read_excel: in a 'value' column that holds a
\* number the empty cells are NaN; a column without any number keeps None
RuleFrame(rows) ==
    IF \A r \in 1..Len(rows) : rows[r].value = None THEN rows
    ELSE [r \in 1..Len(rows) |->
             IF rows[r].value = None THEN [rows[r] EXCEPT !.value = NaN]
             ELSE rows[r]]

\* the resample_rules sheet: empty, and tables in the form of
\* utils/create_resample_rules_template.py
RuleTables ==
    { RuleFrame(rows) : rows \in
    { << >>,
      <<RuleRow(<<"generators", "_t">>, "p_max_pu", << >>, "mean", None),
        RuleRow(<<"loads", "_t">>, "p_set", << >>, "sum", None),
        RuleRow(<<"generators">>, "ramp_limit_up", << >>, "scale", None),
        RuleRow(<<"storage_units">>, "standing_loss", << >>, "scale", None)>>,
      <<RuleRow(<<"generators", "_t">>, "p_max_pu", << >>, "max", None),
        RuleRow(<<"loads", "_t">>, "p_set", << >>, "skip", None),
        RuleRow(<<"generators">>, "ramp_limit_up", << >>, "scale", None),
        RuleRow(<<"generators">>, "ramp_limit_up", <<"nuclear">>, "fixed", <<1, 2>>)>>,
      <<RuleRow(<<"generators", "_t">>, "p_max_pu", << >>, "min", None),
        RuleRow(<<"generators">>, "ramp_limit_up", << >>, "skip", None),
        RuleRow(<<"generators">>, "p_nom", << >>, "fixed", None),
        RuleRow(<<"generators">>, "min_up_time", << >>, "scale", None),
        RuleRow(<<"storage_units">>, "standing_loss", << >>, "default", None),
        RuleRow(<<"storage_units">>, "p_nom", << >>, "largest", None),
        RuleRow(<<"links">>, "ramp_limit_up", << >>, "scale", None)>>,
      <<RuleRow(<<"loads", "_t">>, "p_set", << >>, "mean", None),
        RuleRow(<<"generators">>, "p_nom", << >>, "fixed", R(7)),
        RuleRow(<<"generators">>, "ramp_limit_up", << >>, "default", None)>>,
      <<RuleRow(<<"generators">>, "p_nom", << >>, "fixed", None),
        RuleRow(<<"storage_units">>, "standing_loss", << >>, "fixed", <<1, 2>>)>> } }

InitResample ==
    /\ \E n \in 1..MaxSnap, first \in {0, 1},
          gens \in {{}, {<<"g1">>}, {<<"g1">>, <<"g2">>}},
          loads \in {{}, {<<"d1">>}}, with_storage \in BOOLEAN :
         LET snapshots == Hourly(first, n)
         IN  network =
                 [snapshots |-> snapshots,
                  generators_t |-> [p_max_pu |-> TimeTable(snapshots, gens)],
                  loads_t |-> [p_set |-> TimeTable(snapshots, loads)],
                  storage_units_t |-> [inflow |-> TimeTable(snapshots, {})],
                  generators |-> StaticGenerators,
                  storage_units |->
                      IF with_storage THEN StaticStorageUnits ELSE << >>]
    /\ config = << >>
    /\ args = << >>
    /\ local = << >>
    /\ before = network
    /\ pc = "ready"

\* limit_snapshots up to the rewrite of the time-indexed tables (lines 25-79)
LimitTables ==
    /\ pc = "ready"
    /\ \E snapshot_start \in {None} \cup {Some(t) : t \in 0..2},
          snapshot_end \in {None} \cup {Some(n) : n \in 0..MaxSnap} :
         LET start_idx == IF snapshot_start = None THEN 0
                          ELSE SearchSorted(network.snapshots, snapshot_start[1])
             end_idx == IF snapshot_end = None THEN Len(network.snapshots)
                        ELSE start_idx + snapshot_end[1]
             new_snapshots == Slice(network.snapshots, start_idx, end_idx)
         IN  /\ args' = [snapshot_start |-> snapshot_start,
                         snapshot_end |-> snapshot_end]
             /\ IF snapshot_start = None /\ snapshot_end = None
                THEN /\ pc' = "limited"
                     /\ UNCHANGED <<network, local>>
                ELSE IF new_snapshots = << >>
                THEN /\ pc' = "raised"
                     /\ UNCHANGED <<network, local>>
                ELSE /\ pc' = "limit_axis"
                     /\ local' = [new_snapshots |-> new_snapshots]
                     /\ network' =
                            [f \in DOMAIN network |->
                                IF f \in TimeComponents
                                THEN [a \in DOMAIN network[f] |->
                                         LimitTable(network[f][a], start_idx, end_idx)]
                                ELSE network[f]]
    /\ UNCHANGED <<config, before>>

\* limit_snapshots from line 82 to its return
LimitAxis ==
    /\ pc = "limit_axis"
    /\ network' = SetSnapshots(network, local.new_snapshots)
    /\ pc' = "limited"
    /\ UNCHANGED <<config, args, local, before>>

\* a deviation of the early return: only weights below 1 return at once
ReturnsBelowOne(weights) == weights < 1

\* the early return of resample_network (lines 117-118)
ReturnsAtOnce(weights) == weights <= 1

\* resample_network up to the rewrite of the time-indexed tables (lines
\* 117-154); with weights <= 1 it returns at once
ResampleTables ==
    /\ pc = "limited"
    /\ \E weights \in 0..MaxWeights,
          resample_rules \in {None} \cup {Some(rules) : rules \in RuleTables} :
         /\ args' = [weights |-> weights, resample_rules |-> resample_rules]
         /\ before' = network
         /\ IF ReturnsAtOnce(weights)
            THEN /\ pc' = "done"
                 /\ UNCHANGED <<network, local>>
            ELSE /\ pc' = "resample_axis"
                 /\ local' = [new_snapshots |->
                                  BucketLabels(network.snapshots, weights)]
                 /\ network' =
                        [f \in DOMAIN network |->
                            IF f \in TimeComponents
                            THEN [a \in DOMAIN network[f] |->
                                     ResampleTable(network[f][a], weights)]
                            ELSE network[f]]
    /\ UNCHANGED config

\* resample_network, line 157
ResampleAxis ==
    /\ pc = "resample_axis"
    /\ network' = SetSnapshots(network, local.new_snapshots)
    /\ pc' = "resample_static"
    /\ UNCHANGED <<config, args, local, before>>

\* resample_network from line 160 to its return
ResampleStatic ==
    /\ pc = "resample_static"
    /\ network' =
           IF args.resample_rules # None /\ args.resample_rules[1] # << >>
           THEN resample_static_components(network, args.resample_rules[1],
                                           args.weights)
           ELSE network
    /\ pc' = "done"
    /\ UNCHANGED <<config, args, local, before>>

NextResample ==
    \/ LimitTables
    \/ LimitAxis
    \/ ResampleTables
    \/ ResampleAxis
    \/ ResampleStatic

SpecResample == InitResample /\ [][NextResample]_vars

\* --- properties of snapshot limiting and resampling ------------------------
TableAt(net, p) == net[p[1]][p[2]]

\* the name a rule row gives a component of the network
ComponentName(field) ==
    CASE field = "generators_t" -> <<"generators", "_t">>
      [] field = "loads_t" -> <<"loads", "_t">>
      [] field = "storage_units_t" -> <<"storage_units", "_t">>
      [] OTHER -> <<field>>

RulesGiven == IF args.resample_rules = None THEN << >> ELSE args.resample_rules[1]

\* the rows of the rule table for one component and attribute
RowsFor(field, attribute) ==
    SelectSeq(RulesGiven, LAMBDA row : /\ row.component = ComponentName(field)
                                       /\ row.attribute = attribute)

\* the rule the table gives an entity of the carrier: the carrier's own
\* row if there is one, else the default row (empty carrier); "none" if
\* neither exists
RuleOf(field, attribute, carrier) ==
    LET rows == RowsFor(field, attribute)
        own == SelectSeq(rows, LAMBDA row : row.carrier = carrier)
        default == SelectSeq(rows, LAMBDA row : row.carrier = << >>)
    IN  IF own # << >> THEN own[Len(own)].rule
        ELSE IF default # << >> THEN default[Len(default)].rule
        ELSE "none"

\* C3: whenever a step of limit_snapshots or resample_network replaces
\* network.snapshots, every time-indexed table already has the new axis as
\* its index.
C3_TablesBeforeAxis ==
    [][network'.snapshots # network.snapshots =>
           \A p \in TimeTables(network) :
               TableAt(network, p).index = network'.snapshots]_vars

\* C3, amended: whenever a step of limit_snapshots or resample_network
\* replaces network.snapshots, every non-empty time-indexed table (one with
\* at least one column and one row) already has the new axis as its index.
C3_NonEmptyTablesBeforeAxis ==
    [][network'.snapshots # network.snapshots =>
           \A p \in TimeTables(network) :
               ~IsEmpty(TableAt(network, p)) =>
                   TableAt(network, p).index = network'.snapshots]_vars

\* resample_network with k > 1 has rewritten two non-empty tables to a new,
\* shorter axis and is about to replace network.snapshots
C3_Witness ==
    /\ pc = "resample_axis"
    /\ Len(local.new_snapshots) < Len(network.snapshots)
    /\ ~IsEmpty(network.generators_t.p_max_pu)
    /\ ~IsEmpty(network.loads_t.p_set)
    /\ network.loads_t.p_set.index = local.new_snapshots

ResampleReturned == pc = "done" /\ ~ReturnsAtOnce(args.weights)

\* C7: after resample_network with factor k > 1, every attribute of every
\* entity whose rule is 'scale' holds exactly k times its value before the
\* call.
C7_ScaledByFactor ==
    ResampleReturned =>
        \A c \in StaticComponents : \A i \in 1..Len(network[c]) :
            \A attr \in DOMAIN network[c][i] \ {"name", "carrier"} :
                RuleOf(c, attr, network[c][i].carrier) = "scale" =>
                    network[c][i][attr] =
                        RMul(before[c][i][attr], R(args.weights))

\* C8: resample_network with factor <= 1 returns the network as it was
\* given: snapshots, every time-indexed table and every static attribute
\* are unchanged, and nothing is raised.
C8_FactorOneIsNoOp ==
    [][(pc = "limited" /\ ~(args'.weights > 1)) =>
           /\ network' = network
           /\ pc' = "done"]_vars

\* resample_network returned for a factor <= 1 although the rule table
\* would have overwritten an attribute and tables hold data
C8_Witness ==
    /\ pc = "done"
    /\ args.weights <= 1
    /\ \E i \in 1..Len(RulesGiven) :
          RulesGiven[i].rule = "fixed" /\ RulesGiven[i].value # None
    /\ ~IsEmpty(network.generators_t.p_max_pu)
    /\ Len(network.snapshots) > 1
    /\ network = before

\* C9: resample_network with factor k > 1 and no rule table (None or
\* empty) returns the network as it was given.
C9_NoRulesSkipsResample ==
    (ResampleReturned /\ RulesGiven = << >>) => network = before

\* C10: when resample_network with k > 1 has rewritten the time-indexed
\* tables, every non-empty table with a rule is the bucket-wise sum, max,
\* min or mean of the table before, as its rule says, and is unchanged
\* under 'skip'.
C10_TablesReducedByRule ==
    pc = "resample_axis" =>
        \A p \in TimeTables(before) :
            LET rule == RuleOf(p[1], p[2], << >>)
                df == TableAt(before, p)
            IN  ~IsEmpty(df) =>
                    /\ rule \in {"sum", "max", "min", "mean"} =>
                           TableAt(network, p) = Resampled(df, args.weights, rule)
                    /\ rule = "skip" => TableAt(network, p) = df

\* the rows of the rule table that apply to an entity of the carrier: the
\* carrier's own rows if there are any, else the default rows
RowsOf(field, attribute, carrier) ==
    LET rows == RowsFor(field, attribute)
        own == SelectSeq(rows, LAMBDA row : row.carrier = carrier)
    IN  IF own # << >> THEN own
        ELSE SelectSeq(rows, LAMBDA row : row.carrier = << >>)

\* the attribute has a default row and a row for some carrier
HasBothRules(field, attribute) ==
    LET rows == RowsFor(field, attribute)
    IN  /\ \E i \in 1..Len(rows) : rows[i].carrier = << >>
        /\ \E i \in 1..Len(rows) : rows[i].carrier # << >>

\* C11: after the static pass of resample_network, for an attribute with a
\* default rule and a carrier-specific rule, every entity of that carrier
\* holds the result of the carrier-specific rule alone and every other
\* entity the result of the default rule alone.
C11_CarrierRuleOverridesDefault ==
    ResampleReturned =>
        \A c \in StaticComponents : \A i \in 1..Len(network[c]) :
            \A attr \in DOMAIN network[c][i] \ {"name", "carrier"} :
                HasBothRules(c, attr) =>
                    LET rows == RowsOf(c, attr, network[c][i].carrier)
                        row == rows[Len(rows)]
                    IN  network[c][i][attr] =
                            ApplyStaticRule(<<before[c][i]>>, row,
                                            args.weights)[1][attr]

\* the columns of a table that hold the same value (not NaN) in every row
ConstantColumns(df) ==
    {c \in DOMAIN df.data :
        /\ Len(df.data[c]) > 0
        /\ ~IsNaN(df.data[c][1])
        /\ \A i \in 1..Len(df.data[c]) : df.data[c][i] = df.data[c][1]}

\* C12: once resample_network with k > 1 has resampled the tables (with the
\* mean), a column that held the value c at every original period holds c
\* at every resampled period, one per bucket.
C12_ConstantStaysConstant ==
    (pc \in {"resample_axis", "resample_static", "done"} /\ args.weights > 1) =>
        \A p \in TimeTables(before) :
            \A c \in ConstantColumns(TableAt(before, p)) :
                LET old == TableAt(before, p)
                    new == TableAt(network, p)
                IN  /\ new.index = BucketLabels(old.index, args.weights)
                    /\ c \in DOMAIN new.data
                    /\ Len(new.data[c]) = Len(new.index)
                    /\ \A i \in 1..Len(new.data[c]) :
                           new.data[c][i] = old.data[c][1]

\* a constant load series under the 'mean' rule was resampled into at
\* least two buckets, one of them holding several original periods
C12_Witness ==
    /\ pc = "done"
    /\ args.weights > 1
    /\ RuleOf("loads_t", "p_set", << >>) = "mean"
    /\ <<"d1">> \in ConstantColumns(before.loads_t.p_set)
    /\ Len(network.snapshots) >= 2
    /\ Len(network.snapshots) < Len(before.snapshots)
    /\ network.loads_t.p_set.data[<<"d1">>][1] = R(5)

\* ------------------------------------------------------------------------
\* The two generator merges, each on its own: merge_cc_generators on a table
\* with combined-cycle groups, aggregate_generators_by_carrier_and_region on
\* a table without
\* ------------------------------------------------------------------------
CCRow(carrier, province, p_nom, marginal_cost, cc_group) ==
    [carrier |-> carrier, province |-> province, bus |-> <<"b1">>,
     p_nom |-> R(p_nom), marginal_cost |-> R(marginal_cost),
     cc_group |-> cc_group]

\* the rows combined-cycle tables are drawn from
CCPool ==
    { CCRow(<<"coal">>, <<"A">>, 100, 10, <<"cc1">>),
      CCRow(<<"gas">>, <<"A">>, 200, 7, <<"cc1">>),
      CCRow(<<"gas">>, <<"B">>, 50, 12, <<"cc2">>),
      CCRow(<<"coal">>, <<"B">>, 100, 7, <<"cc2">>),
      CCRow(<<"coal">>, <<"A">>, 100, 7, NA),
      CCRow(<<"gas">>, <<"A">>, 200, 12, <<"cc1">>) }

CCTables ==
    UNION { { [i \in 1..n |->
                 [name |-> GeneratorName(i), bus |-> rows[i].bus,
                  province |-> rows[i].province, carrier |-> rows[i].carrier,
                  p_nom |-> rows[i].p_nom, marginal_cost |-> rows[i].marginal_cost,
                  cc_group |-> rows[i].cc_group]]
              : rows \in [1..n -> CCPool] }
            : n \in 1..MaxGens }

CCConfigs ==
    { [cc_merge_rules |->
           [cc_group |-> "cc_group", p_nom |-> "sum", marginal_cost |-> "mean",
            carrier |-> "p_nom", bus |-> "p_nom", province |-> "p_nom"]],
      [cc_merge_rules |->
           [cc_group |-> "cc_group", p_nom |-> "sum",
            marginal_cost |-> "median", others |-> "largest"]],
      [cc_merge_rules |-> [p_nom |-> "sum"]],
      [cc_merge_rules |-> [p_nom |-> "sum", carrier |-> "mean"]],
      [generator_region_aggregator_rules |-> [p_nom |-> "sum"]] }

\* tables of any size with every column, and one-row tables that lack the
\* cc_group column
InitCC ==
    /\ \E generators \in CCTables, cols \in {0, 2} :
         \E columns \in (IF Len(generators) = 1
                         THEN {AllColumns \cup {"cc_group"}, AllColumns}
                         ELSE {AllColumns \cup {"cc_group"}}) :
            network = [generators |-> generators,
                       generators_t |-> GeneratorSeries(generators, cols),
                       generator_columns |-> columns]
    /\ config = << >>
    /\ args = << >>
    /\ local = << >>
    /\ before = network
    /\ pc = "loaded"

MergeCCGenerators ==
    /\ pc = "loaded"
    /\ \E cfg \in CCConfigs :
         LET out == merge_cc_generators(network.generators, network.generators_t,
                                        network.generator_columns, cfg)
         IN  /\ network' = [network EXCEPT !.generators = out.generators,
                                           !.generators_t = out.generators_t]
             /\ config' = cfg
             /\ local' = [warnings |-> merge_cc_warnings(
                                           network.generator_columns, cfg)]
             /\ pc' = IF out.raised THEN "cc_raised" ELSE "cc_done"
    /\ UNCHANGED <<args, before>>

InitMerge == InitCC \/ InitGen

NextMerge == MergeCCGenerators \/ AggregateGenerators

SpecMerge == InitMerge /\ [][NextMerge]_vars

\* --- properties of the two merges -----------------------------------------
CCPassRan ==
    /\ pc = "cc_done"
    /\ "cc_group" \in before.generator_columns
    /\ "cc_merge_rules" \in DOMAIN config

CCRule(col) ==
    LET rules == config["cc_merge_rules"]
    IN  IF col \in DOMAIN rules THEN rules[col]
        ELSE IF "others" \in DOMAIN rules THEN rules["others"] ELSE "p_nom"

CCGroupNames ==
    {before.generators[i].cc_group : i \in 1..Len(before.generators)} \ {NA}

CCMembers(group_name) ==
    {i \in 1..Len(before.generators) :
        before.generators[i].cc_group = group_name}

\* the first member with the largest p_nom
IsLargest(i, members) ==
    /\ i \in members
    /\ \A j \in members :
          ~RLess(before.generators[i].p_nom, before.generators[j].p_nom)
    /\ \A j \in members :
          j < i => before.generators[j].p_nom # before.generators[i].p_nom

UnknownRuleWarned ==
    \E w \in local.warnings : w \in {"Unknown rule", "Unknown aggregation rule"}

\* C14 as stated: an unrecognised rule name falls back, in generator
\* aggregation and in combined-cycle merging alike, to the value of the
\* member with the largest capacity, and a warning reports it.
C14_UnknownRulePicksLargest ==
    /\ GenPassRan =>
         \A col \in {"p_nom", "marginal_cost"} :
            GenRule(col) \notin KnownRules =>
               /\ UnknownRuleWarned
               /\ \A k \in 1..Len(network.generators) :
                     \E p \in GenGroupPairs :
                        /\ network.generators[k].name =
                               MergedName(p[1], p[2], GenGroupByRegion)
                        /\ \E i \in GenMembers(p) :
                              /\ IsLargest(i, GenMembers(p))
                              /\ network.generators[k][col] =
                                     before.generators[i][col]
    /\ CCPassRan =>
         \A col \in {"p_nom", "marginal_cost"} :
            CCRule(col) \notin CCKnownRules =>
               /\ UnknownRuleWarned
               /\ \A g \in CCGroupNames :
                     \E k \in 1..Len(network.generators) :
                        /\ network.generators[k].name = CCName(g)
                        /\ \E i \in CCMembers(g) :
                              /\ IsLargest(i, CCMembers(g))
                              /\ network.generators[k][col] =
                                     before.generators[i][col]

\* C15: when the grouping attribute is absent from the generator table
\* (carrier or the requested region column in generator aggregation,
\* cc_group in combined-cycle merging) the pass aborts with an error: it
\* neither returns the input unchanged nor falls back to another grouping.
C15_MissingGroupingAttributeIsFatal ==
    /\ (/\ pc \in {"done", "raised"}
        /\ \/ "carrier" \notin before.generator_columns
           \/ /\ args.region_column # "None"
              /\ args.region_column \notin before.generator_columns)
           => pc = "raised"
    /\ (pc \in {"cc_done", "cc_raised"}
        /\ "cc_group" \notin before.generator_columns)
           => pc = "cc_raised"

\* C16: after edge merging no merged line has s_nom zero and no merged link
\* has p_nom zero; a combined capacity of zero has been replaced by the
\* unlimited-capacity sentinel.
C16_NoZeroCapacity ==
    /\ pc \in {"lines", "done"} =>
         \A i \in 1..Len(network.lines) : network.lines[i].s_nom # R(0)
    /\ pc = "done" =>
         \A i \in 1..Len(network.links) : network.links[i].p_nom # R(0)

RegionEdgesDone == pc \in {"links", "carriers", "raised", "done"}

IsSelfLoop(e) ==
    /\ MapRegion(e.bus0, local.bus_to_region) # NA
    /\ MapRegion(e.bus0, local.bus_to_region)
           = MapRegion(e.bus1, local.bus_to_region)

\* C17: with remove_self_loops left at its default, after the line and link
\* steps of aggregate_network_by_region no line and no link has bus0 equal
\* to bus1: an edge whose two endpoints map to the same region is dropped.
C17_NoSelfLoops ==
    RegionEdgesDone =>
        /\ \A i \in 1..Len(network.lines) :
              network.lines[i].bus0 # network.lines[i].bus1
        /\ \A i \in 1..Len(network.links) :
              network.links[i].bus0 # network.links[i].bus1

\* a run whose only line joined two buses of one region and is gone, next
\* to a link between two regions that was merged
C17_Witness ==
    /\ pc = "done"
    /\ Len(before.lines) = 1
    /\ IsSelfLoop(before.lines[1])
    /\ before.lines[1].bus0 # before.lines[1].bus1
    /\ Len(network.lines) = 0
    /\ Len(network.links) = 1
    /\ network.links[1].bus0 # network.links[1].bus1

\* C18: a generator merge that raises part-way leaves the network exactly as
\* it was before the pass: no original generator has been removed and no
\* merged generator has been added.
C18_RaiseLeavesNetworkUnchanged ==
    pc \in {"raised", "cc_raised"} => network = before

HasRuleFor(rules, col) == col \in DOMAIN rules \/ "others" \in DOMAIN rules

\* C19: the rule of an attribute is its own entry of the rule table, else the
\* table's 'others' entry, else the lookup fails with 'no rule defined': a
\* merge that ran to its end found an entry or an 'others' default for every
\* column of the generator table.
C19_RuleResolvedOrFails ==
    /\ GenPassRan =>
         \A col \in before.generator_columns :
            HasRuleFor(config["generator_region_aggregator_rules"], col)
    /\ (CCPassRan /\ CCGroupNames # {}) =>
         \A col \in before.generator_columns :
            HasRuleFor(config["cc_merge_rules"], col)

\* the original lines that survive the filters of lines 298-310
SurvivingLines ==
    {i \in 1..Len(before.lines) :
        /\ EdgeRegion(before.lines[i].bus0) # NA
        /\ EdgeRegion(before.lines[i].bus1) # NA
        /\ Get(config.lines, "remove_self_loops", TRUE) = TRUE =>
              EdgeRegion(before.lines[i].bus0) # EdgeRegion(before.lines[i].bus1)}

LineKey(region0, region1, v_nom) ==
    IF LinesByVoltage THEN <<region0, region1, v_nom>> ELSE <<region0, region1>>

SurvivingKeys ==
    {LineKey(EdgeRegion(before.lines[i].bus0), EdgeRegion(before.lines[i].bus1),
             before.lines[i].v_nom) : i \in SurvivingLines}

LinkMembers(m) ==
    {i \in 1..Len(before.links) :
        /\ EdgeRegion(before.links[i].bus0) = m.bus0
        /\ EdgeRegion(before.links[i].bus1) = m.bus1}

RECURSIVE CapacityTotal(_, _, _)
CapacityTotal(edges, S, attr) ==
    IF S = {} THEN R(0)
    ELSE LET i == CHOOSE j \in S : TRUE
         IN  RAdd(edges[i][attr], CapacityTotal(edges, S \ {i}, attr))

FirstOf(S) == CHOOSE i \in S : \A j \in S : i <= j

NoLineCapacityRule == pc \in {"lines", "done"} /\ "s_nom" \notin DOMAIN config.lines

NoLinkCapacityRule == pc = "done" /\ "p_nom" \notin DOMAIN config.links

\* C21 as stated: when no capacity rule is configured, s_nom of a merged
\* line and p_nom of a merged link are the sums of the capacities of all
\* edges of the group.
C21_DefaultCapacityIsSum ==
    /\ NoLineCapacityRule =>
         \A k \in 1..Len(network.lines) :
            network.lines[k].s_nom =
                CapacityTotal(before.lines, LineMembers(network.lines[k]), "s_nom")
    /\ NoLinkCapacityRule =>
         \A k \in 1..Len(network.links) :
            network.links[k].p_nom =
                CapacityTotal(before.links, LinkMembers(network.links[k]), "p_nom")

\* C21 amended: when no capacity rule is configured, p_nom of a merged link
\* is the sum of p_nom over its group, replaced by the unlimited-capacity
\* value when that sum is zero, and s_nom of a merged line is the s_nom of
\* the first line of its group.
C21_DefaultCapacityByEdgeKind ==
    /\ NoLineCapacityRule =>
         \A k \in 1..Len(network.lines) :
            /\ LineMembers(network.lines[k]) # {}
            /\ network.lines[k].s_nom =
                   before.lines[FirstOf(LineMembers(network.lines[k]))].s_nom
    /\ NoLinkCapacityRule =>
         \A k \in 1..Len(network.links) :
            LET total == CapacityTotal(before.links,
                             LinkMembers(network.links[k]), "p_nom")
            IN  /\ LinkMembers(network.links[k]) # {}
                /\ network.links[k].p_nom =
                       IF total = R(0)
                       THEN Get(config.links, "unlimited_capacity", R(1000000))
                       ELSE total

\* lines of different capacity were merged into one line next to a merged
\* link of non-zero capacity, with no capacity rule configured
C21_Witness ==
    /\ NoLineCapacityRule
    /\ NoLinkCapacityRule
    /\ \E k \in 1..Len(network.lines) :
          \E i \in LineMembers(network.lines[k]),
             j \in LineMembers(network.lines[k]) :
                before.lines[i].s_nom # before.lines[j].s_nom
    /\ \E k \in 1..Len(network.links) :
          /\ LinkMembers(network.links[k]) # {}
          /\ network.links[k].p_nom = R(5)

\* ------------------------------------------------------------------------
\* Generator aggregation over tables with missing marginal costs
\* ------------------------------------------------------------------------
MissingCostTables ==
    LET pool == { GenRow(<<"coal">>, <<"A">>, 100, 10),
                  GenRow(<<"coal">>, <<"A">>, 50, 12),
                  GenRow(<<"gas">>, <<"A">>, 200, 7),
                  [GenRow(<<"coal">>, <<"A">>, 100, 0) EXCEPT !.marginal_cost = NaN],
                  [GenRow(<<"coal">>, <<"A">>, 50, 0) EXCEPT !.marginal_cost = NaN],
                  [GenRow(<<"gas">>, <<"B">>, 200, 0) EXCEPT !.marginal_cost = NaN] }
    IN  UNION { { [i \in 1..n |-> [name |-> GeneratorName(i)] @@ rows[i]]
                  : rows \in [1..n -> pool] }
                : n \in 1..MaxGens }

InitGenMissing ==
    /\ \E generators \in MissingCostTables, cols \in {0, 2} :
          network = [generators |-> generators,
                     generators_t |-> GeneratorSeries(generators, cols),
                     generator_columns |-> AllColumns]
    /\ config = << >>
    /\ args = << >>
    /\ local = << >>
    /\ before = network
    /\ pc = "ready"

SpecGenMissing == InitGenMissing /\ [][NextGen]_vars

\* --- properties of aggregation with missing values -------------------------
NumericRules == {"sum", "mean", "smallest", "oldest", "largest", "newest"}

\* the members of a group whose value of col is present
Present(S, col) == {i \in S : ~IsNaN(before.generators[i][col])}

\* the reduction of col over the non-empty set S of members, none missing
ReducedOver(S, col, rule) ==
    CASE rule = "sum" -> TotalOver(S, col)
      [] rule = "mean" -> RDiv(TotalOver(S, col), R(Cardinality(S)))
      [] rule \in {"smallest", "oldest"} ->
             before.generators[CHOOSE i \in S : \A j \in S :
                 ~RLess(before.generators[j][col], before.generators[i][col])][col]
      [] rule \in {"largest", "newest"} ->
             before.generators[CHOOSE i \in S : \A j \in S :
                 ~RLess(before.generators[i][col], before.generators[j][col])][col]

MergedOf(p) ==
    CHOOSE k \in 1..Len(network.generators) :
        network.generators[k].name = MergedName(p[1], p[2], GenGroupByRegion)

\* C22 as stated: under sum, mean, min and max missing member values are
\* skipped, and when every member's value is missing the merged generator's
\* value is missing.
C22_AllMissingGivesMissing ==
    GenPassRan =>
        \A p \in GenGroupPairs : \A col \in {"p_nom", "marginal_cost"} :
            GenRule(col) \in NumericRules =>
                network.generators[MergedOf(p)][col] =
                    IF Present(GenMembers(p), col) = {} THEN NaN
                    ELSE ReducedOver(Present(GenMembers(p), col), col, GenRule(col))

\* C22 amended: under sum, mean, min and max missing member values are
\* skipped; when every member's value is missing the merged generator holds
\* the attribute's default 0 (the sum of nothing, or the value network.add
\* fills in for an attribute it was not given), not a missing value.
C22_AllMissingGivesDefault ==
    GenPassRan =>
        \A p \in GenGroupPairs : \A col \in {"p_nom", "marginal_cost"} :
            GenRule(col) \in NumericRules =>
                network.generators[MergedOf(p)][col] =
                    IF Present(GenMembers(p), col) = {} THEN DefaultValue(col)
                    ELSE ReducedOver(Present(GenMembers(p), col), col, GenRule(col))

\* a group with one missing and one present cost next to a group whose
\* costs are all missing, merged under the mean
C22_Witness ==
    /\ GenPassRan
    /\ GenRule("marginal_cost") = "mean"
    /\ \E p \in GenGroupPairs, q \in GenGroupPairs :
          /\ Present(GenMembers(p), "marginal_cost") # {}
          /\ Present(GenMembers(p), "marginal_cost") # GenMembers(p)
          /\ Present(GenMembers(q), "marginal_cost") = {}

\* the old generators without a grouping value
Ungrouped ==
    {i \in 1..Len(before.generators) :
        \/ before.generators[i].carrier = NA
        \/ GenGroupByRegion /\ before.generators[i].province = NA}

\* C23: a generator whose carrier (or region, when grouping by region) is
\* missing is a member of no merged generator, and the pass either leaves it
\* in the generator table as it was or drops it and reports a warning.
C23_UngroupedKeptOrWarned ==
    GenPassRan =>
        \A i \in Ungrouped :
            /\ \A p \in GenGroupPairs : i \notin GenMembers(p)
            /\ \/ \E k \in 1..Len(network.generators) :
                     network.generators[k] = before.generators[i]
               \/ /\ \A k \in 1..Len(network.generators) :
                        network.generators[k].name # before.generators[i].name
                  /\ local.warnings # {}

AllGenerators(net) == 1..Len(net.generators)

RECURSIVE TableTotal(_, _, _)
TableTotal(generators, S, col) ==
    IF S = {} THEN R(0)
    ELSE LET i == CHOOSE j \in S : TRUE
         IN  RAdd(generators[i][col], TableTotal(generators, S \ {i}, col))

\* C24: generator aggregation preserves the total of a 'sum'-ruled
\* attribute: its total over all generators after the pass equals its total
\* over all generators before the pass.
C24_SumRulePreservesTotal ==
    GenPassRan =>
        \A col \in {"p_nom", "marginal_cost"} :
            GenRule(col) = "sum" =>
                TableTotal(network.generators, AllGenerators(network), col)
                    = TableTotal(before.generators, AllGenerators(before), col)

GenPassStarted ==
    /\ pc \in {"done", "raised"}
    /\ "carrier" \in before.generator_columns
    /\ "generator_region_aggregator_rules" \in DOMAIN config

\* C25: every old generator with a grouping value belongs to exactly one
\* (carrier, region) group, and distinct groups receive distinct
\* merged-generator names.
C25_DistinctGroupsDistinctNames ==
    GenPassStarted =>
        /\ \A i \in AllGenerators(before) \ Ungrouped :
              Cardinality({p \in GenGroupPairs : i \in GenMembers(p)}) = 1
        /\ \A p \in GenGroupPairs, q \in GenGroupPairs :
              p # q => MergedName(p[1], p[2], GenGroupByRegion)
                           # MergedName(q[1], q[2], GenGroupByRegion)

CeilDiv(n, k) == (n + k - 1) \div k

TablesOnAxis ==
    \A p \in TimeTables(network) :
        ~IsEmpty(TableAt(network, p)) =>
            TableAt(network, p).index = network.snapshots

\* C26 as stated: after resample_network with k > 1, network.snapshots holds
\* exactly one entry per run of k consecutive original periods (the last run
\* may be shorter), and every non-empty time-indexed table has the index
\* network.snapshots.
C26_OneEntryPerKPeriods ==
    ResampleReturned =>
        /\ Len(network.snapshots) = CeilDiv(Len(before.snapshots), args.weights)
        /\ TablesOnAxis

\* C26 amended: after resample_network with k > 1, network.snapshots holds
\* one entry per k-hour bucket of the clock, counted from midnight, from the
\* bucket of the first original period to the bucket of the last; every
\* original period lies in exactly one of them, and every non-empty
\* time-indexed table has the index network.snapshots. When the first
\* original period starts a bucket these are the runs of k consecutive
\* original periods.
C26_OneEntryPerClockBucket ==
    ResampleReturned =>
        LET k == args.weights
            old == before.snapshots
            new == network.snapshots
        IN  /\ \A i \in 1..Len(new) : new[i] % k = 0
            /\ \A i \in 1..(Len(new) - 1) : new[i + 1] = new[i] + k
            /\ \A j \in 1..Len(old) :
                  Cardinality({i \in 1..Len(new) :
                      new[i] <= old[j] /\ old[j] < new[i] + k}) = 1
            /\ new[1] <= old[1] /\ old[1] < new[1] + k
            /\ new[Len(new)] <= old[Len(old)]
            /\ TablesOnAxis
            /\ old[1] % k = 0 =>
                  /\ Len(new) = CeilDiv(Len(old), k)
                  /\ \A i \in 1..Len(new) : new[i] = old[(i - 1) * k + 1]

\* four hourly periods from 01:00 resampled by two: three buckets
C26_Witness ==
    /\ ResampleReturned
    /\ args.weights = 2
    /\ before.snapshots = <<1, 2, 3, 4>>
    /\ Len(network.snapshots) = 3
    /\ ~IsEmpty(network.generators_t.p_max_pu)

\* a rule row with a writing rule names the column of the component
WritingRow(c, attr) ==
    \E r \in 1..Len(RulesGiven) :
        /\ RulesGiven[r].component = <<c>>
        /\ RulesGiven[r].attribute = attr
        /\ RulesGiven[r].rule \in {"scale", "fixed", "default"}

\* C27: the static pass of resample_network changes only the (component,
\* attribute) columns named by a rule row whose rule is scale, fixed or
\* default; a column under 'skip', under an unknown rule name or named by no
\* row is unchanged for every entity.
C27_OnlyRuledColumnsChange ==
    ResampleReturned =>
        \A c \in StaticComponents :
            /\ Len(network[c]) = Len(before[c])
            /\ \A i \in 1..Len(network[c]) :
                  /\ DOMAIN network[c][i] = DOMAIN before[c][i]
                  /\ \A attr \in DOMAIN network[c][i] :
                        network[c][i][attr] # before[c][i][attr] =>
                            WritingRow(c, attr)

\* a pass whose rule table resets standing_loss and has 'skip' for
\* ramp_limit_up and an unknown rule for the p_nom of storage units
C27_Witness ==
    /\ ResampleReturned
    /\ \E r \in 1..Len(RulesGiven) :
          RulesGiven[r].rule = "skip" /\ RulesGiven[r].component = <<"generators">>
    /\ \E r \in 1..Len(RulesGiven) : RulesGiven[r].rule = "largest"
    /\ Len(network.storage_units) = 1
    /\ network.storage_units[1].standing_loss # before.storage_units[1].standing_loss
    /\ network.storage_units[1].p_nom = before.storage_units[1].p_nom
    /\ network.generators = before.generators

\* the 'fixed' rows of a column all come without a value
FixedWithoutValue(c, attr) ==
    /\ \E r \in 1..Len(RulesGiven) :
          /\ RulesGiven[r].component = <<c>>
          /\ RulesGiven[r].attribute = attr
    /\ \A r \in 1..Len(RulesGiven) :
          (RulesGiven[r].component = <<c>> /\ RulesGiven[r].attribute = attr) =>
              /\ RulesGiven[r].rule = "fixed"
              /\ RulesGiven[r].value \in {None, NaN}

\* C30: in the static pass a rule row 'fixed' whose value cell is empty
\* leaves the attribute unchanged for every entity.
C30_FixedWithoutValueWritesNothing ==
    ResampleReturned =>
        \A c \in StaticComponents : \A i \in 1..Len(network[c]) :
            \A attr \in DOMAIN network[c][i] :
                FixedWithoutValue(c, attr) =>
                    network[c][i][attr] = before[c][i][attr]

\* ------------------------------------------------------------------------
\* libs/leapyear_handler.py: a table is a sequence of rows [date, value]
\* with date = <<year, month, day, hour>>
\* ------------------------------------------------------------------------
LeapHours == 2

is_leap_year(year) == (year % 4 = 0 /\ year % 100 # 0) \/ year % 400 = 0

DateLess(a, b) ==
    \/ a[1] < b[1]
    \/ a[1] = b[1] /\ a[2] < b[2]
    \/ a[1] = b[1] /\ a[2] = b[2] /\ a[3] < b[3]
    \/ a[1] = b[1] /\ a[2] = b[2] /\ a[3] = b[3] /\ a[4] < b[4]

\* DataFrame.sort_index()
RECURSIVE SortIndex(_)
SortIndex(df) ==
    IF df = << >> THEN << >>
    ELSE LET i == CHOOSE j \in 1..Len(df) :
                      \A o \in 1..Len(df) :
                          /\ ~DateLess(df[o].date, df[j].date)
                          /\ df[o].date = df[j].date => j <= o
         IN  <<df[i]>> \o SortIndex([k \in 1..(Len(df) - 1) |->
                                        IF k < i THEN df[k] ELSE df[k + 1]])

\* adjust_year_with_leap_handling on the index of df: the returned table,
\* or raised when a date is replaced by one that does not exist
\* (Timestamp.replace raises ValueError for a day the month does not have)
adjust_year_with_leap_handling(df, base_year, target_year) ==
    LET ValidDate(date) ==
            date[3] <= (IF date[2] # 2 THEN 31
                        ELSE IF is_leap_year(date[1]) THEN 29 ELSE 28)
        WithYear(rows) ==
            [i \in 1..Len(rows) |->
                [rows[i] EXCEPT !.date = <<target_year, @[2], @[3], @[4]>>]]
        Returned(rows) ==
            IF \A i \in 1..Len(rows) : ValidDate(rows[i].date)
            THEN [raised |-> FALSE, df |-> rows]
            ELSE [raised |-> TRUE, df |-> df]
        feb_28_rows == SelectSeq(df, LAMBDA r : r.date[2] = 2 /\ r.date[3] = 28)
        feb_29_rows ==
            [i \in 1..Len(feb_28_rows) |->
                [feb_28_rows[i] EXCEPT !.date = <<@[1], @[2], 29, @[4]>>]]
    IN  IF base_year = 0 \/ target_year = 0 \/ base_year = target_year
        THEN [raised |-> FALSE, df |-> df]
        ELSE IF is_leap_year(base_year) = is_leap_year(target_year)
        THEN Returned(WithYear(df))
        ELSE IF is_leap_year(base_year)
        THEN Returned(WithYear(SelectSeq(df,
                 LAMBDA r : ~(r.date[2] = 2 /\ r.date[3] = 29))))
        ELSE IF feb_28_rows = << >> THEN Returned(WithYear(df))
        ELSE IF \E i \in 1..Len(feb_29_rows) : ~ValidDate(feb_29_rows[i].date)
        THEN [raised |-> TRUE, df |-> df]
        ELSE LET out == Returned(WithYear(df))
             IN  IF out.raised THEN out
                 ELSE [raised |-> FALSE, df |-> SortIndex(out.df \o feb_29_rows)]

\* the tables over a subset of the time stamps around the end of February
\* of a year, in date order, each row holding the month, day and hour it
\* was recorded at
LeapTables(year) ==
    LET stamps ==
            {<<year, 2, 27, 0>>, <<year, 3, 1, 0>>}
                \cup {<<year, 2, 28, h>> : h \in 0..(LeapHours - 1)}
                \cup (IF is_leap_year(year) THEN {<<year, 2, 29, 0>>} ELSE {})
    IN  UNION {{[i \in 1..n |-> [date |-> f[i], value |-> Tail(f[i])]] :
                  f \in {g \in [1..n -> stamps] :
                            \A i \in 1..(n - 1) : DateLess(g[i], g[i + 1])}}
               : n \in 0..Cardinality(stamps)}

\* load_network reads base_year and target_year from the configuration; 0
\* stands for a year that is not given
InitLeap ==
    /\ \E base_year \in {2023, 2024}, target_year \in {0, 2023, 2024, 2025, 2028} :
         /\ config = [base_year |-> base_year, target_year |-> target_year]
         /\ \E df \in LeapTables(base_year) : network = [snapshot_df |-> df]
    /\ args = << >>
    /\ local = << >>
    /\ before = network
    /\ pc = "loaded"

\* load_network, step 3, for one table
AdjustYear ==
    /\ pc = "loaded"
    /\ LET out == adjust_year_with_leap_handling(network.snapshot_df,
                      config.base_year, config.target_year)
       IN  /\ network' = [network EXCEPT !.snapshot_df = out.df]
           /\ pc' = IF out.raised THEN "raised" ELSE "adjusted"
    /\ UNCHANGED <<config, args, local, before>>

SpecLeap == InitLeap /\ [][AdjustYear]_vars

\* --- properties of the leap-year handling ----------------------------------
IsFeb28(r) == r.date[2] = 2 /\ r.date[3] = 28

ToLeapYear ==
    /\ pc \in {"adjusted", "raised"}
    /\ ~is_leap_year(config.base_year)
    /\ config.target_year # 0
    /\ is_leap_year(config.target_year)

\* C28: from a non-leap base year to a leap target year the call returns the
\* rows re-dated to the target year plus, for every Feb 28 row, a copy dated
\* Feb 29 of the target year, in date order.
C28_Feb28DuplicatedAsFeb29 ==
    ToLeapYear =>
        LET old == before.snapshot_df
            new == network.snapshot_df
            feb28 == {i \in 1..Len(old) : IsFeb28(old[i])}
        IN  /\ pc = "adjusted"
            /\ Len(new) = Len(old) + Cardinality(feb28)
            /\ \A j \in 1..(Len(new) - 1) : DateLess(new[j].date, new[j + 1].date)
            /\ \A j \in 1..Len(new) : new[j].date[1] = config.target_year
            /\ \A i \in 1..Len(old) :
                  \E j \in 1..Len(new) :
                      /\ new[j].value = old[i].value
                      /\ Tail(new[j].date) = Tail(old[i].date)
            /\ \A i \in feb28 :
                  \E j \in 1..Len(new) :
                      /\ new[j].value = old[i].value
                      /\ new[j].date = <<config.target_year, 2, 29, old[i].date[4]>>


\* --- properties of the regional loads ---------------------------------------
\* every row of the demand table names a regional bus and has a positive demand
DemandCoversBuses ==
    /\ config.province_demand # "unusable"
    /\ \A i \in 1..Len(config.province_demand) :
          LET row == config.province_demand[i]
          IN  /\ standardize_region_name(row.province, args.province_mapping)
                     \in Index(network.buses)
              /\ RLess(R(0), row.demand)

\* the total of loads_t.p_set over all loads, per snapshot
LoadTotal(loads_t) ==
    IF DOMAIN loads_t.p_set = {} THEN << >> ELSE RowSums(loads_t.p_set)

\* C29: after _create_regional_loads with a demand table whose regions are all
\* regional buses and whose demands are all positive, the total of
\* loads_t.p_set over all loads at every snapshot is the total before the call.
C29_RegionalLoadsConserveLoad ==
    (pc = "done" /\ DemandCoversBuses) =>
        LoadTotal(network.loads_t) = LoadTotal(before.loads_t)

============================================================================
